---- MODULE Spec2Model ----
(***************************************************************************)
(* Model of the Pstryk integration: the API client (token state, the       *)
(* authenticated GET with its single refresh-and-retry) and the            *)
(* coordinator's refresh cycle that assembles one snapshot.                *)
(*                                                                         *)
(* Every network exchange is two steps: the request is sent by the action  *)
(* that reaches the await, and the answer is handled by a later action.    *)
(* Code between two awaits of network I/O runs in one action.              *)
(***************************************************************************)
EXTENDS Integers, Sequences, FiniteSets, TLC

\* ------------------------------------------------------------------ bounds
\* longest meter list the provider answers with
MaxMeters == 2
\* access tokens the provider mints during one run
MaxMint == 2
\* refresh cycles of one run
MaxCycles == 2

\* ------------------------------------------------------------- Python values
\* Optional values: None, or a present value.
None == [some |-> FALSE]
Some(v) == [some |-> TRUE, val |-> v]
IsNone(x) == ~x.some

\* dict.get(key, default)
Get(d, k, default) == IF k \in DOMAIN d THEN d[k] ELSE default

EmptyDict == [k \in {} |-> None]

\* ------------------------------------------------------------------- tokens
\* A token string is the sequence of its dot-separated parts; the payload part
\* is a base64 segment that either decodes to a JSON object or does not.
NoToken == <<>>
Segment(obj) == [valid |-> TRUE, obj |-> obj]
BadSegment == [valid |-> FALSE, obj |-> EmptyDict]
Jwt(n) == <<"hdr", Segment(("iat" :> 10 * n) @@ ("exp" :> 10 * n + 5)), "sig">>
\* three parts, payload not decodable
CorruptJwt == <<"hdr", BadSegment, "sig">>
\* not three parts
OpaqueToken == <<"opaque">>

Ok(v) == [ok |-> TRUE, val |-> v, exc |-> "none"]
Raise(cls) == [ok |-> FALSE, val |-> EmptyDict, exc |-> cls]

decode_jwt(token) ==
  IF token = NoToken THEN Raise("ValueError")
  ELSE IF Len(token) # 3 THEN Raise("ValueError")
  ELSE IF ~token[2].valid THEN Raise("ValueError")
  ELSE Ok(token[2].obj)

\* datetime.fromtimestamp(decoded.get(claim, 0), tz=utc), as Unix seconds
Stamp(decoded, claim) == Get(decoded, claim, 0)

\* the instant of the run in Unix seconds: Jwt(0) has expired, Jwt(1) has not
LibNow == Stamp(decode_jwt(Jwt(1)).val, "iat") + 2

\* ------------------------------------------------------------------- state
VARIABLES
  client,   \* the PstrykApiClient instance: tokens, bookkeeping, session
  calls,    \* per caller: the frame of its authenticated fetch (get_* / _get_json)
  cyc,      \* the coordinator's refresh cycle (_async_update_data)
  app,      \* the config entry: setup phase, persisted data, timer, re-auth flows
  minted    \* number of access tokens the provider has minted so far

vars == <<client, calls, cyc, app, minted>>

\* the user id stored in the config entry by the config flow
EntryUserId == Some(5)
\* the user id the provider may send along with a refreshed access token
ProviderUserId == Some(7)

\* __init__: a client without credentials and without tokens.
\*   session: None (0), or which of the ClientSession objects the client made
\*   sessions: the ClientSession objects this client made, each as the number
\*             of times it was closed (0: still open)
NewClient ==
  [ email |-> None, password |-> None,
    access_token |-> NoToken, refresh_token |-> NoToken, user_id |-> None,
    AccessIssuedAt |-> None, AccessExpires |-> None,
    RefreshIssuedAt |-> None, RefreshExpires |-> None,
    session |-> 0, sessions |-> <<>> ]

\* from_tokens that stores epoch timestamps for a token it cannot decode
from_tokens_lenient(access, refresh, user_id) ==
  LET da == decode_jwt(access)
      dr == decode_jwt(refresh)
      c0 == [NewClient EXCEPT !.access_token = access, !.refresh_token = refresh,
                              !.user_id = user_id]
  IN Ok([c0 EXCEPT !.AccessIssuedAt = Some(Stamp(da.val, "iat")),
                   !.AccessExpires = Some(Stamp(da.val, "exp")),
                   !.RefreshIssuedAt = Some(Stamp(dr.val, "iat")),
                   !.RefreshExpires = Some(Stamp(dr.val, "exp"))])

\* from_tokens: [ok, val (the client), exc]
from_tokens(access, refresh, user_id) ==
  LET da == decode_jwt(access)
      dr == decode_jwt(refresh)
      c0 == [NewClient EXCEPT !.access_token = access, !.refresh_token = refresh,
                              !.user_id = user_id]
  IN IF ~da.ok THEN Raise(da.exc)
     ELSE IF ~dr.ok THEN Raise(dr.exc)
     ELSE Ok([c0 EXCEPT !.AccessIssuedAt = Some(Stamp(da.val, "iat")),
                        !.AccessExpires = Some(Stamp(da.val, "exp")),
                        !.RefreshIssuedAt = Some(Stamp(dr.val, "iat")),
                        !.RefreshExpires = Some(Stamp(dr.val, "exp"))])

\* _ensure_session that makes a new ClientSession on every call
ensure_session_always(cl) ==
  [cl EXCEPT !.session = Len(cl.sessions) + 1, !.sessions = Append(@, 0)]

\* _ensure_session: a ClientSession is made only when the client holds none
ensure_session(cl) ==
  IF cl.session = 0
  THEN [cl EXCEPT !.session = Len(cl.sessions) + 1, !.sessions = Append(@, 0)]
  ELSE cl

\* _auth_headers: the bearer token, or RuntimeError
auth_headers(cl) ==
  IF cl.access_token = NoToken THEN Raise("RuntimeError") ELSE Ok(cl.access_token)

\* -------------------------------------------------------- provider answers
\* An answer to a request: a transport failure, or a status with a JSON body.
\* ord tells the answers of one call apart (1: first GET, 2: retried GET).
NetFail(n) == [neterr |-> TRUE, status |-> 0, ord |-> n, data |-> <<>>]
Answer(n, st, d) == [neterr |-> FALSE, status |-> st, ord |-> n, data |-> d]
NoResp == [neterr |-> FALSE, status |-> 0, ord |-> 0, data |-> <<>>]

\* answers to POST /auth/token/refresh
RefreshAnswers ==
  { NetFail(0), Answer(0, 401, EmptyDict), Answer(0, 200, EmptyDict),
    Answer(0, 200, "access" :> CorruptJwt) }
  \cup (IF minted < MaxMint
        THEN { Answer(0, 200, "access" :> Jwt(minted + 2)),
               Answer(0, 200, ("access" :> Jwt(minted + 2)) @@ ("user_id" :> ProviderUserId)) }
        ELSE {})

\* refresh_begin without the check for a refresh token
refresh_begin_no_check(cl) == [cl |-> ensure_session(cl), exc |-> "none"]

\* refresh_access up to the POST: [cl, exc]; exc = "none" when the POST was sent
refresh_begin(cl) ==
  LET c1 == ensure_session(cl)
  IN IF c1.refresh_token = NoToken THEN [cl |-> c1, exc |-> "RuntimeError"]
     ELSE [cl |-> c1, exc |-> "none"]

\* refresh_finish that also takes the new token as its refresh token
refresh_finish_rotates(cl, resp) ==
  IF resp.neterr THEN [cl |-> cl, exc |-> "RuntimeError"]
  ELSE IF resp.status # 200 THEN [cl |-> cl, exc |-> "RuntimeError"]
  ELSE
    LET new_access == Get(resp.data, "access", NoToken)
        c1 == [cl EXCEPT !.access_token = new_access, !.refresh_token = new_access]
        da == decode_jwt(new_access)
    IN IF new_access = NoToken THEN [cl |-> cl, exc |-> "RuntimeError"]
       ELSE IF ~da.ok THEN [cl |-> c1, exc |-> da.exc]
       ELSE [cl |-> [c1 EXCEPT !.AccessIssuedAt = Some(Stamp(da.val, "iat")),
                               !.AccessExpires = Some(Stamp(da.val, "exp")),
                               !.user_id = Get(resp.data, "user_id", None)],
             exc |-> "none"]

\* refresh_finish that reads user_id from the answer before it checks the answer
refresh_finish_early_user(cl, resp) ==
  IF resp.neterr THEN [cl |-> cl, exc |-> "RuntimeError"]
  ELSE IF resp.status # 200
    THEN [cl |-> [cl EXCEPT !.user_id = None], exc |-> "RuntimeError"]
  ELSE
    LET new_access == Get(resp.data, "access", NoToken)
        c1 == [cl EXCEPT !.access_token = new_access]
        da == decode_jwt(new_access)
    IN IF new_access = NoToken
       THEN [cl |-> [cl EXCEPT !.user_id = Get(resp.data, "user_id", None)],
             exc |-> "RuntimeError"]
       ELSE IF ~da.ok THEN [cl |-> c1, exc |-> da.exc]
       ELSE [cl |-> [c1 EXCEPT !.AccessIssuedAt = Some(Stamp(da.val, "iat")),
                               !.AccessExpires = Some(Stamp(da.val, "exp")),
                               !.user_id = Get(resp.data, "user_id", None)],
             exc |-> "none"]

\* refresh_access from the answer on: [cl, exc]
refresh_finish(cl, resp) ==
  IF resp.neterr THEN [cl |-> cl, exc |-> "RuntimeError"]
  ELSE IF resp.status # 200 THEN [cl |-> cl, exc |-> "RuntimeError"]
  ELSE
    LET new_access == Get(resp.data, "access", NoToken)
        c1 == [cl EXCEPT !.access_token = new_access]
        da == decode_jwt(new_access)
    IN IF new_access = NoToken THEN [cl |-> cl, exc |-> "RuntimeError"]
       ELSE IF ~da.ok THEN [cl |-> c1, exc |-> da.exc]
       ELSE [cl |-> [c1 EXCEPT !.AccessIssuedAt = Some(Stamp(da.val, "iat")),
                               !.AccessExpires = Some(Stamp(da.val, "exp")),
                               !.user_id = Get(resp.data, "user_id", None)],
             exc |-> "none"]

\* ------------------------------------------------------------ domain decoders
\* identifiers the provider gives to meters
MeterIds == {1, 2}

\* Address.from_dict
Address_from_dict(data) ==
  IF data = EmptyDict THEN [street |-> None, city |-> None]
  ELSE [street |-> Get(data, "street", None), city |-> Get(data, "city", None)]

\* Meter.from_dict: a record without "id" decodes to a Meter whose id is None
Meter_from_dict(data) ==
  [ id |-> Get(data, "id", None),
    meter_id |-> Get(data, "meter_id", Some("")),
    name |-> Get(data, "name", None),
    is_prosument |-> Get(data, "is_prosument", FALSE),
    address |-> Address_from_dict(Get(data, "address", EmptyDict)) ]

\* FullPriceAlert.from_dict
FullPriceAlert_from_dict(d) ==
  [ day |-> Get(d, "day", None),
    low_price_threshold |-> Get(d, "low_price_threshold", None),
    high_price_threshold |-> Get(d, "high_price_threshold", None),
    expensive_hours |-> Get(d, "expensive_hours", <<>>),
    cheap_hours |-> Get(d, "cheap_hours", <<>>),
    created_at |-> Get(d, "created_at", None) ]

\* BuyPriceFrame.from_dict / SellPriceFrame.from_dict
PriceFrame_from_dict(data) ==
  [ price_gross |-> Get(data, "price_gross", None),
    full_price |-> Get(data, "full_price", None),
    start |-> Get(data, "start", None),
    is_cheap |-> Get(data, "is_cheap", FALSE),
    is_expensive |-> Get(data, "is_expensive", FALSE) ]

\* a JSON string; the strings of the model are "" and one that is no numeral
Str(s) == [some |-> TRUE, val |-> s, str |-> TRUE]
IsStr(x) == "str" \in DOMAIN x

\* not x, of a JSON null, number or string
Falsy(x) == IsNone(x) \/ x = Some(0) \/ x = Str("")

\* float(x) of a JSON null, number or string
float(x) ==
  IF IsNone(x) THEN Raise("TypeError")
  ELSE IF IsStr(x) THEN Raise("ValueError")
  ELSE Ok(x.val)

\* float(x or 0)
FloatOrZero(x) == float(IF Falsy(x) THEN Some(0) ELSE x)

\* cls(...) of PowerUsageFrame.from_dict: the frame, or the exception of the
\* first float() that raised
PowerUsageFrame_cls(d, fae_usage, rae, energy_balance) ==
  IF ~fae_usage.ok THEN Raise(fae_usage.exc)
  ELSE IF ~rae.ok THEN Raise(rae.exc)
  ELSE IF ~energy_balance.ok THEN Raise(energy_balance.exc)
  ELSE Ok([ start |-> Get(d, "start", None),
            fae_usage |-> fae_usage.val,
            rae |-> rae.val,
            energy_balance |-> energy_balance.val ])

\* PowerUsageFrame.from_dict
PowerUsageFrame_from_dict(d) ==
  PowerUsageFrame_cls(d, FloatOrZero(Get(d, "fae_usage", Some(0))),
                         FloatOrZero(Get(d, "rae", Some(0))),
                         FloatOrZero(Get(d, "energy_balance", Some(0))))

\* cls(...) of PowerUsageDay.from_api_dict: the day, or the exception of the
\* first frame or total that raised
PowerUsageDay_cls(frames, fae_total_usage, rae_total, energy_balance) ==
  IF \E x \in 1..Len(frames) : ~frames[x].ok
  THEN Raise(frames[CHOOSE x \in 1..Len(frames) :
                      ~frames[x].ok /\ \A y \in 1..(x - 1) : frames[y].ok].exc)
  ELSE IF ~fae_total_usage.ok THEN Raise(fae_total_usage.exc)
  ELSE IF ~rae_total.ok THEN Raise(rae_total.exc)
  ELSE IF ~energy_balance.ok THEN Raise(energy_balance.exc)
  ELSE Ok([ frames |-> [x \in 1..Len(frames) |-> frames[x].val],
            fae_total_usage |-> fae_total_usage.val,
            rae_total |-> rae_total.val,
            energy_balance |-> energy_balance.val ])

\* the frames of PowerUsageDay.from_api_dict
PowerUsageDay_frames(frames_raw) ==
  [x \in 1..Len(frames_raw) |-> PowerUsageFrame_from_dict(frames_raw[x])]

\* PowerUsageDay.from_api_dict
PowerUsageDay_from_api_dict(d) ==
  PowerUsageDay_cls(PowerUsageDay_frames(Get(d, "frames", <<>>)),
                    FloatOrZero(Get(d, "fae_total_usage", Some(0))),
                    FloatOrZero(Get(d, "rae_total", Some(0))),
                    FloatOrZero(Get(d, "energy_balance", Some(0))))

\* the except clause of f(x) of PowerCostFrame.from_dict, r being float(x)
PowerCostFrame_except(x, r) ==
  IF r.ok THEN Some(r.val)
  ELSE IF IsNone(x) \/ x = Str("") THEN Some(0)
  ELSE x

\* f(x) of PowerCostFrame.from_dict: float(x), or 0.0 for None and "", or x as
\* it is
PowerCostFrame_f(x) == PowerCostFrame_except(x, float(x))

\* PowerCostFrame.from_dict
PowerCostFrame_from_dict(data) ==
  [ start |-> Get(data, "start", None),
    fae_cost |-> PowerCostFrame_f(Get(data, "fae_cost", None)),
    vat |-> PowerCostFrame_f(Get(data, "vat", None)) ]

\* the except clause of f(x) of PowerCostDay.from_dict, r being float(x)
PowerCostDay_except(x, r) ==
  IF r.ok THEN Some(r.val)
  ELSE IF IsNone(x) THEN None
  ELSE x

\* f(x) of PowerCostDay.from_dict: float(x), or None for None, or x as it is
PowerCostDay_f(x) == PowerCostDay_except(x, float(x))

\* PowerCostDay.from_dict
PowerCostDay_from_dict(data) ==
  [ frames |-> LET raw == Get(data, "frames", <<>>)
               IN [x \in 1..Len(raw) |-> PowerCostFrame_from_dict(raw[x])],
    fae_total_cost |-> PowerCostDay_f(Get(data, "fae_total_cost", None)),
    total_energy_sold_value |-> PowerCostDay_f(Get(data, "total_energy_sold_value", None)),
    total_vat |-> PowerCostDay_f(Get(data, "total_vat", None)) ]

\* ------------------------------------------------------------ provider data
RECURSIVE SeqsUpTo(_, _)
SeqsUpTo(S, n) ==
  IF n = 0 THEN {<<>>}
  ELSE LET shorter == SeqsUpTo(S, n - 1)
       IN shorter \cup {Append(q, x) : q \in {r \in shorter : Len(r) = n - 1}, x \in S}

\* records of GET /api/meter/: with an id, or lacking it
RawMeters ==
  {EmptyDict} \cup {("id" :> Some(i)) @@ ("meter_id" :> Some("PL")) : i \in MeterIds}

\* SubKinds with the cost fetch made first
SubKinds_cost_first == <<"cost", "alerts", "pricing_buy", "pricing_sell", "usage">>

\* the six fetches of the client the coordinator uses
SubKinds == <<"alerts", "pricing_buy", "pricing_sell", "usage", "cost">>
\* a fetch: which get_*, for which meter, with which window_start/window_end
\* (the ISO strings of the query, as whole seconds)
Op(kind, mid, win) == [kind |-> kind, mid |-> mid, win |-> win]
NoWindow == <<0, 0>>
MetersOp == Op("meters", 0, NoWindow)

\* meter lists of at most MaxMeters records; an identifier names one meter
MeterBodies ==
  { q \in SeqsUpTo(RawMeters, MaxMeters) :
      \A a, b \in 1..Len(q) : (a # b /\ q[a] # EmptyDict) => q[a] # q[b] }

\* JSON bodies the provider answers a 200 with
Bodies(op) ==
  IF op.kind = "meters" THEN MeterBodies
  ELSE IF op.kind = "alerts" THEN { << "day" :> Some(op.mid) >> }
  ELSE IF op.kind = "pricing_buy"
    THEN { "frames" :> << ("price_gross" :> Some(10 + op.mid)) @@ ("is_cheap" :> TRUE) >> }
  ELSE IF op.kind = "pricing_sell"
    THEN { "frames" :> << "price_gross" :> Some(20) >> }
  ELSE IF op.kind = "usage"
    THEN { ("frames" :> << "fae_usage" :> Some(3) >>) @@ ("fae_total_usage" :> Some(30 + op.mid)) }
  ELSE { ("frames" :> << "fae_cost" :> Some(4) >>) @@ ("fae_total_cost" :> Some(40 + op.mid)) }

\* answers to the n-th GET of a call
GetAnswers(op, n) ==
  [neterr : {FALSE}, status : {200}, ord : {n}, data : Bodies(op)]
  \cup [neterr : {FALSE}, status : {401, 500}, ord : {n}, data : {<<>>}]
  \cup {NetFail(n)}

\* what get_meters, get_full_price_alerts, get_pricing_buy, get_pricing_sell,
\* get_power_usage_day and get_power_cost_day make of the body of _get_json
\* (every usage body of Bodies decodes)
Decode(op, data) ==
  IF op.kind = "meters" THEN [x \in 1..Len(data) |-> Meter_from_dict(data[x])]
  ELSE IF op.kind = "alerts" THEN [x \in 1..Len(data) |-> FullPriceAlert_from_dict(data[x])]
  ELSE IF op.kind \in {"pricing_buy", "pricing_sell"}
    THEN LET frames == Get(data, "frames", <<>>)
         IN [x \in 1..Len(frames) |-> PriceFrame_from_dict(frames[x])]
  ELSE IF op.kind = "usage" THEN PowerUsageDay_from_api_dict(data).val
  ELSE PowerCostDay_from_dict(data)

\* ------------------------------------------------- the authenticated fetch
Callers == {"coordinator", "other"}
\* the caller whose fetches the coordinator's cycle makes
Coord == "coordinator"

\* frame of one get_* call: where it stands, and what it did so far
\*   gets, refreshes, posts: GETs sent, refresh_access calls, refresh POSTs sent
\*   hdr: bearer token of the GET sent last;  got: token the refresh answered
\*   r1, r2: answers to the first and to the retried GET;  ret: answer returned
\*   pre: the client when the call began
IdleFrame(cl) ==
  [ pc |-> "idle", op |-> MetersOp, gets |-> 0, refreshes |-> 0, posts |-> 0,
    hdr |-> NoToken, got |-> NoToken, r1 |-> NoResp, r2 |-> NoResp,
    ret |-> NoResp, exc |-> "none", pre |-> cl ]

Failed(fr, cls) == [fr EXCEPT !.pc = "err", !.exc = cls]

\* get_invoke without the access-token checks: the GET goes out as it is
get_invoke_no_check(cl, op) ==
  LET fr == [IdleFrame(cl) EXCEPT !.op = op]
      c1 == ensure_session(cl)
  IN [cl |-> c1, fr |-> [fr EXCEPT !.pc = "get1", !.gets = 1, !.hdr = c1.access_token]]

\* get_invoke that refreshes first when the recorded expiry has passed
get_invoke_proactive(cl, op) ==
  LET fr == [IdleFrame(cl) EXCEPT !.op = op]
      c1 == ensure_session(cl)
      h == auth_headers(c1)
      rb == refresh_begin(c1)
  IN IF cl.access_token = NoToken THEN [cl |-> cl, fr |-> Failed(fr, "RuntimeError")]
     ELSE IF cl.AccessExpires.some /\ cl.AccessExpires.val < LibNow /\ rb.exc = "none"
       THEN [cl |-> rb.cl, fr |-> [fr EXCEPT !.pc = "refresh", !.refreshes = 1, !.posts = 1]]
     ELSE IF ~h.ok THEN [cl |-> c1, fr |-> Failed(fr, h.exc)]
     ELSE [cl |-> c1, fr |-> [fr EXCEPT !.pc = "get1", !.gets = 1, !.hdr = h.val]]

\* _get_json called directly, up to its first GET
get_json_invoke(cl, op) ==
  LET fr == [IdleFrame(cl) EXCEPT !.op = op]
      c1 == ensure_session(cl)
      h == auth_headers(c1)
  IN IF ~h.ok THEN [cl |-> c1, fr |-> Failed(fr, h.exc)]
     ELSE [cl |-> c1, fr |-> [fr EXCEPT !.pc = "get1", !.gets = 1, !.hdr = h.val]]

\* get_*: the access-token check, then _get_json up to its first GET
get_invoke(cl, op) ==
  LET fr == [IdleFrame(cl) EXCEPT !.op = op]
      c1 == ensure_session(cl)
      h == auth_headers(c1)
  IN IF cl.access_token = NoToken THEN [cl |-> cl, fr |-> Failed(fr, "RuntimeError")]
     ELSE IF ~h.ok THEN [cl |-> c1, fr |-> Failed(fr, h.exc)]
     ELSE [cl |-> c1, fr |-> [fr EXCEPT !.pc = "get1", !.gets = 1, !.hdr = h.val]]

\* on_first with every non-200 answer treated like a 401
on_first_refresh_any(cl, fr, resp) ==
  LET f1 == [fr EXCEPT !.r1 = resp]
      rb == refresh_begin(cl)
      f2 == [f1 EXCEPT !.refreshes = @ + 1]
  IN IF resp.neterr THEN [cl |-> cl, fr |-> Failed(f1, "ClientError")]
     ELSE IF resp.status = 200 THEN [cl |-> cl, fr |-> [f1 EXCEPT !.pc = "ret", !.ret = resp]]
     ELSE IF rb.exc # "none" THEN [cl |-> rb.cl, fr |-> Failed(f2, rb.exc)]
     ELSE [cl |-> rb.cl, fr |-> [f2 EXCEPT !.pc = "refresh", !.posts = @ + 1]]

\* _get_json from the answer to its first GET up to the next await
on_first(cl, fr, resp) ==
  LET f1 == [fr EXCEPT !.r1 = resp]
      rb == refresh_begin(cl)
      f2 == [f1 EXCEPT !.refreshes = @ + 1]
  IN IF resp.neterr THEN [cl |-> cl, fr |-> Failed(f1, "ClientError")]
     ELSE IF resp.status = 200 THEN [cl |-> cl, fr |-> [f1 EXCEPT !.pc = "ret", !.ret = resp]]
     ELSE IF resp.status # 401 THEN [cl |-> cl, fr |-> Failed(f1, "RuntimeError")]
     ELSE IF rb.exc # "none" THEN [cl |-> rb.cl, fr |-> Failed(f2, rb.exc)]
     ELSE [cl |-> rb.cl, fr |-> [f2 EXCEPT !.pc = "refresh", !.posts = @ + 1]]

\* _get_json from the answer to the refresh POST up to the retried GET, which
\* is sent on self.session as it is (None after an aclose in the meantime)
on_refresh(cl, fr, resp) ==
  LET out == refresh_finish(cl, resp)
      f1 == [fr EXCEPT !.got = IF resp.neterr \/ resp.status # 200 THEN NoToken
                                ELSE Get(resp.data, "access", NoToken)]
      h == auth_headers(out.cl)
  IN IF out.exc # "none" THEN [cl |-> out.cl, fr |-> Failed(f1, out.exc)]
     ELSE IF out.cl.session = 0 THEN [cl |-> out.cl, fr |-> Failed(f1, "AttributeError")]
     ELSE IF ~h.ok THEN [cl |-> out.cl, fr |-> Failed(f1, h.exc)]
     ELSE [cl |-> out.cl,
           fr |-> [f1 EXCEPT !.pc = "get2", !.gets = @ + 1, !.hdr = h.val]]

\* on_retry as a retry loop: a 401 on the retry refreshes again
on_retry_loop(cl, fr, resp) ==
  LET f1 == [fr EXCEPT !.r2 = resp]
      rb == refresh_begin(cl)
  IN IF resp.neterr THEN [cl |-> cl, fr |-> Failed(f1, "ClientError")]
     ELSE IF resp.status = 401
       THEN [cl |-> rb.cl, fr |-> [f1 EXCEPT !.pc = "refresh", !.refreshes = @ + 1,
                                             !.posts = @ + 1]]
     ELSE IF resp.status # 200 THEN [cl |-> cl, fr |-> Failed(f1, "RuntimeError")]
     ELSE [cl |-> cl, fr |-> [f1 EXCEPT !.pc = "ret", !.ret = resp]]

\* on_retry returning the body of the first answer
on_retry_first_body(cl, fr, resp) ==
  LET f1 == [fr EXCEPT !.r2 = resp]
  IN IF resp.neterr THEN [cl |-> cl, fr |-> Failed(f1, "ClientError")]
     ELSE IF resp.status # 200 THEN [cl |-> cl, fr |-> Failed(f1, "RuntimeError")]
     ELSE [cl |-> cl, fr |-> [f1 EXCEPT !.pc = "ret", !.ret = fr.r1]]

\* _get_json from the answer to the retried GET
on_retry(cl, fr, resp) ==
  LET f1 == [fr EXCEPT !.r2 = resp]
  IN IF resp.neterr THEN [cl |-> cl, fr |-> Failed(f1, "ClientError")]
     ELSE IF resp.status # 200 THEN [cl |-> cl, fr |-> Failed(f1, "RuntimeError")]
     ELSE [cl |-> cl, fr |-> [f1 EXCEPT !.pc = "ret", !.ret = resp]]

Finished(fr) == fr.pc \in {"ret", "err"}

\* the provider mints the token an answer carries
Mints(resp) ==
  IF ~resp.neterr /\ resp.status = 200
       /\ Get(resp.data, "access", NoToken) = Jwt(minted + 2)
  THEN 1 ELSE 0

\* the first GET of caller c is answered
FirstAnswer(c) ==
  /\ calls[c].pc = "get1"
  /\ \E resp \in GetAnswers(calls[c].op, 1) :
       LET out == on_first(client, calls[c], resp)
       IN /\ client' = out.cl
          /\ calls' = [calls EXCEPT ![c] = out.fr]
  /\ UNCHANGED <<cyc, app, minted>>

\* the refresh POST of caller c is answered
RefreshAnswer(c) ==
  /\ calls[c].pc = "refresh"
  /\ \E resp \in RefreshAnswers :
       LET out == on_refresh(client, calls[c], resp)
       IN /\ client' = out.cl
          /\ calls' = [calls EXCEPT ![c] = out.fr]
          /\ minted' = minted + Mints(resp)
  /\ UNCHANGED <<cyc, app>>

\* the retried GET of caller c is answered
RetryAnswer(c) ==
  /\ calls[c].pc = "get2"
  /\ \E resp \in GetAnswers(calls[c].op, 2) :
       LET out == on_retry(client, calls[c], resp)
       IN /\ client' = out.cl
          /\ calls' = [calls EXCEPT ![c] = out.fr]
  /\ UNCHANGED <<cyc, app, minted>>

\* ------------------------------------------------------------ time windows
\* Instants and wall-clock times are milliseconds; day d starts at wall time
\* d * DayMs.
HourMs == 60 * 60 * 1000
DayMs == 24 * HourMs

\* ZoneInfo("Europe/Warsaw") over a short calendar: on SpringDay the clocks go
\* from 02:00 to 03:00 (UTC+1 to UTC+2), on AutumnDay from 03:00 back to 02:00.
SpringDay == 2
AutumnDay == 4

\* utcoffset of the zone timezone(timedelta(hours=1)): one offset all year
utcoffset_fixed(wall) == HourMs

\* euwarsaw() returns ZoneInfo("Europe/Warsaw"): the import of zoneinfo succeeds
\* on every Python that loads this integration (async_forward_entry_setups and
\* UnitOfEnergy need a Home Assistant that runs on Python 3.9 or later).
\* UTC offset in force at a wall-clock time of the zone (fold = 0: a wall time
\* the spring change skips has the offset from before it, a wall time the
\* autumn change repeats has the offset of its first occurrence)
utcoffset(wall) ==
  IF wall < SpringDay * DayMs + 3 * HourMs THEN HourMs
  ELSE IF wall < AutumnDay * DayMs + 3 * HourMs THEN 2 * HourMs
  ELSE HourMs

\* UTC offset in force at an instant
offset_at(t) ==
  IF t < SpringDay * DayMs + HourMs THEN HourMs
  ELSE IF t < AutumnDay * DayMs + HourMs THEN 2 * HourMs
  ELSE HourMs

\* dt.astimezone(timezone.utc) of an aware wall-clock time
astimezone_utc(wall) == wall - utcoffset(wall)

\* datetime.now(euwarsaw()).date()
local_date(t) == (t + offset_at(t)) \div DayMs

\* local_day_window_utc with the end taken 24 hours after the start instant
local_day_window_utc_absolute(d) ==
  LET start_local == d * DayMs
  IN <<astimezone_utc(start_local), astimezone_utc(start_local) + DayMs>>

\* local_day_window_utc_ms with the end one second before the next midnight
local_day_window_utc_ms_second(d) ==
  LET start_local == d * DayMs
      end_local == start_local + DayMs - 1000
  IN <<astimezone_utc(start_local), astimezone_utc(end_local)>>

local_day_window_utc(d) ==
  LET start_local == d * DayMs
      end_local == start_local + DayMs
  IN <<astimezone_utc(start_local), astimezone_utc(end_local)>>

local_day_window_utc_ms(d) ==
  LET start_local == d * DayMs
      end_local == start_local + DayMs - 1
  IN <<astimezone_utc(start_local), astimezone_utc(end_local)>>

\* iso_utc that rounds to the nearest second
iso_utc_round(t) == (t + 500) \div 1000

\* iso_utc: the instant without its sub-second part, as whole seconds
iso_utc(t) == t \div 1000
IsoWindow(w) == <<iso_utc(w[1]), iso_utc(w[2])>>

\* the instant of the first refresh: 23:59:40 local time on SpringDay
SetupInstant == (SpringDay + 1) * DayMs - 2 * HourMs - 20 * 1000

\* async_track_utc_time_change(minute=59, second=30): the first HH:59:30 UTC
\* after instant t
TickOffset == 59 * 60 * 1000 + 30 * 1000
NextTick(t) ==
  LET hour == t \div HourMs
  IN IF t < hour * HourMs + TickOffset THEN hour * HourMs + TickOffset
     ELSE (hour + 1) * HourMs + TickOffset

\* ------------------------------------------------- the coordinator's cycle
\* an except clause that catches RuntimeError only
Caught_runtime_only(cls) == cls = "RuntimeError"

\* classes an `except Exception` clause catches
Caught(cls) == cls \in {"RuntimeError", "ValueError", "ClientError", "AttributeError"}

NoMeters == <<>>
NoSlots == [m \in {} |-> EmptyDict]
NoSnapshot == [made |-> FALSE]

\* the error `e` the except clause of get_meters logs: its class, and how many
\* GETs and refresh_access calls the failed fetch had made
\* (status: the HTTP status the message of a failed GET names, 0 without one)
NoError == [exc |-> "none", gets |-> 0, refreshes |-> 0, status |-> 0]
LoggedError(fr) ==
  [ exc |-> fr.exc, gets |-> fr.gets, refreshes |-> fr.refreshes,
    status |-> IF fr.gets = 2 /\ fr.r2.ord = 2 THEN fr.r2.status
               ELSE IF fr.gets = 1 /\ fr.refreshes = 0 /\ fr.r1.ord = 1 THEN fr.r1.status
               ELSE 0 ]

IdleCycle ==
  [ pc |-> "idle", n |-> 0, now_utc |-> 0, today |-> 0, user_id |-> None,
    meters |-> NoMeters, i |-> 0, k |-> 0, per_meter |-> NoSlots,
    issued |-> <<>>, ended |-> <<>>, meters_err |-> NoError, escaped |-> "none",
    snap |-> NoSnapshot ]

\* how a fetch of the cycle ended: the call, whether it returned, and the body
\* it returned (kept for the record; the code does not read it)
Ended(fr) ==
  [op |-> fr.op, ok |-> fr.pc = "ret",
   data |-> IF fr.pc = "ret" THEN fr.ret.data ELSE <<>>]

\* WindowOf with the sell query on the inclusive window
WindowOf_sell_inclusive(kind, today) ==
  IF kind = "pricing_buy" THEN local_day_window_utc(today)
  ELSE IF kind \in {"pricing_sell", "usage", "cost"} THEN local_day_window_utc_ms(today)
  ELSE <<0, 0>>

\* the window a sub-fetch is called with: buy and sell share the exclusive
\* window, usage and cost the inclusive one
WindowOf(kind, today) ==
  IF kind \in {"pricing_buy", "pricing_sell"} THEN local_day_window_utc(today)
  ELSE IF kind \in {"usage", "cost"} THEN local_day_window_utc_ms(today)
  ELSE <<0, 0>>

\* the call of the k-th sub-fetch for meter mid
SubOp(k, mid, today) == Op(SubKinds[k], mid, IsoWindow(WindowOf(SubKinds[k], today)))

\* NextMeter with `break` in place of `continue`: a meter without an id ends
\* the loop
NextMeter_break(meters, j) ==
  IF j + 1 <= Len(meters) /\ ~IsNone(meters[j + 1].id) THEN j + 1 ELSE 0

\* index of the first meter after position j that has an id; 0 when none is left
NextMeter(meters, j) ==
  LET rest == {x \in (j + 1)..Len(meters) : ~IsNone(meters[x].id)}
  IN IF rest = {} THEN 0 ELSE CHOOSE x \in rest : \A y \in rest : x <= y

\* the dict returned at the end of _async_update_data
Snapshot(cy, meters, per_meter) ==
  [ made |-> TRUE,
    ts_utc |-> cy.now_utc,
    user_id |-> cy.user_id,
    meters |-> meters,
    per_meter |-> per_meter,
    windows |-> [ buy |-> IsoWindow(local_day_window_utc(cy.today)),
                  sell |-> IsoWindow(local_day_window_utc(cy.today)),
                  usage |-> IsoWindow(local_day_window_utc_ms(cy.today)),
                  cost |-> IsoWindow(local_day_window_utc_ms(cy.today)) ] ]

\* SlotStore whose except clauses only log: a failed fetch leaves no key
SlotStore_no_key(slot, kind, fr) ==
  LET v == Decode(fr.op, fr.ret.data)
  IN IF fr.pc = "err" THEN slot
     ELSE IF kind = "usage" THEN
       ("power_usage_frames" :> Some(v.frames))
       @@ ("power_usage_totals" :>
             Some([ fae_total_usage |-> v.fae_total_usage, rae_total |-> v.rae_total,
                    energy_balance |-> v.energy_balance ]))
       @@ slot
     ELSE IF kind = "cost" THEN
       ("power_cost_frames" :> Some(v.frames))
       @@ ("power_cost_totals" :>
             Some([ fae_total_cost |-> v.fae_total_cost,
                    total_energy_sold_value |-> v.total_energy_sold_value,
                    total_vat |-> v.total_vat ]))
       @@ slot
     ELSE (kind :> Some(v)) @@ slot

\* the assignments of one try/except section, v being what the fetch returned
SlotAssign(slot, kind, fr, v) ==
     IF kind = "usage" THEN
       IF fr.pc = "err"
       THEN ("power_usage_frames" :> None) @@ ("power_usage_totals" :> None) @@ slot
       ELSE ("power_usage_frames" :> Some(v.frames))
            @@ ("power_usage_totals" :>
                  Some([ fae_total_usage |-> v.fae_total_usage, rae_total |-> v.rae_total,
                         energy_balance |-> v.energy_balance ]))
            @@ slot
     ELSE IF kind = "cost" THEN
       IF fr.pc = "err"
       THEN ("power_cost_frames" :> None) @@ ("power_cost_totals" :> None) @@ slot
       ELSE ("power_cost_frames" :> Some(v.frames))
            @@ ("power_cost_totals" :>
                  Some([ fae_total_cost |-> v.fae_total_cost,
                         total_energy_sold_value |-> v.total_energy_sold_value,
                         total_vat |-> v.total_vat ]))
            @@ slot
     ELSE (kind :> (IF fr.pc = "err" THEN None ELSE Some(v))) @@ slot

\* what one try/except section of the loop leaves in the meter's slot
SlotStore(slot, kind, fr) == SlotAssign(slot, kind, fr, Decode(fr.op, fr.ret.data))

\* the loop from the meter after position j on: the next meter with an id gets
\* an empty slot and its alerts fetch is called; without one the snapshot is
\* returned (and the frame of the last fetch is gone).  [cl, fr, cy]
Advance(cl, fr, cy, meters, per_meter, j) ==
  LET x == NextMeter(meters, j)
      mid == meters[x].id.val
      op == SubOp(1, mid, cy.today)
      out == get_invoke(cl, op)
  IN IF x = 0
     THEN [ cl |-> cl, fr |-> IdleFrame(cl),
            cy |-> [cy EXCEPT !.pc = "returned", !.meters = meters,
                              !.per_meter = per_meter,
                              !.snap = Snapshot(cy, meters, per_meter)] ]
     ELSE [ cl |-> out.cl, fr |-> out.fr,
            cy |-> [cy EXCEPT !.pc = "sub", !.meters = meters, !.i = x, !.k = 1,
                              !.per_meter = (mid :> EmptyDict) @@ per_meter,
                              !.issued = Append(@, op)] ]

\* CycleBegin on a client built anew from the tokens the entry was set up with
CycleBegin_new_client(cl, cy, now) ==
  LET fresh == from_tokens(Jwt(1), Jwt(0), EntryUserId).val
      out == get_invoke(fresh, MetersOp)
  IN [ cl |-> out.cl, fr |-> out.fr,
       cy |-> [IdleCycle EXCEPT !.pc = "meters", !.n = cy.n + 1, !.now_utc = now,
                                !.today = local_date(now), !.user_id = fresh.user_id,
                                !.issued = <<MetersOp>>] ]

\* _async_update_data from its start up to the GET of get_meters
CycleBegin(cl, cy, now) ==
  LET out == get_invoke(cl, MetersOp)
  IN [ cl |-> out.cl, fr |-> out.fr,
       cy |-> [IdleCycle EXCEPT !.pc = "meters", !.n = cy.n + 1, !.now_utc = now,
                                !.today = local_date(now), !.user_id = cl.user_id,
                                !.issued = <<MetersOp>>] ]

\* AfterMeters without the try/except around get_meters
AfterMeters_no_except(cl, fr, cy) ==
  LET c1 == [cy EXCEPT !.ended = Append(@, Ended(fr)),
                       !.meters_err = IF fr.pc = "err" THEN LoggedError(fr) ELSE NoError]
  IN IF fr.pc = "err"
     THEN [cl |-> cl, fr |-> IdleFrame(cl),
           cy |-> [c1 EXCEPT !.pc = "raised", !.escaped = fr.exc]]
     ELSE Advance(cl, fr, c1, Decode(fr.op, fr.ret.data), NoSlots, 0)

\* _async_update_data once get_meters has ended: its except clause, the
\* windows, and the loop up to the first sub-fetch
AfterMeters(cl, fr, cy) ==
  LET c1 == [cy EXCEPT !.ended = Append(@, Ended(fr)),
                       !.meters_err = IF fr.pc = "err" THEN LoggedError(fr) ELSE NoError]
      meters == IF fr.pc = "err" THEN NoMeters ELSE Decode(fr.op, fr.ret.data)
  IN IF fr.pc = "err" /\ ~Caught(fr.exc)
     THEN [cl |-> cl, fr |-> IdleFrame(cl),
           cy |-> [c1 EXCEPT !.pc = "raised", !.escaped = fr.exc]]
     ELSE Advance(cl, fr, c1, meters, NoSlots, 0)

\* AfterSub with one try/except around the five fetches of a meter: a failed
\* fetch ends the work on that meter
AfterSub_one_try(cl, fr, cy) ==
  LET c1 == [cy EXCEPT !.ended = Append(@, Ended(fr))]
      mid == cy.meters[cy.i].id.val
      slot == SlotStore(cy.per_meter[mid], SubKinds[cy.k], fr)
      pm == [cy.per_meter EXCEPT ![mid] = slot]
      op == SubOp(cy.k + 1, mid, cy.today)
      out == get_invoke(cl, op)
  IN IF cy.k < Len(SubKinds) /\ fr.pc = "ret"
     THEN [ cl |-> out.cl, fr |-> out.fr,
            cy |-> [c1 EXCEPT !.k = @ + 1, !.per_meter = pm, !.issued = Append(@, op)] ]
     ELSE Advance(cl, fr, c1, cy.meters, pm, cy.i)

\* AfterSub that calls a failed fetch a second time before it goes on
AfterSub_refetch(cl, fr, cy) ==
  LET c1 == [cy EXCEPT !.ended = Append(@, Ended(fr))]
      mid == cy.meters[cy.i].id.val
      slot == SlotStore(cy.per_meter[mid], SubKinds[cy.k], fr)
      pm == [cy.per_meter EXCEPT ![mid] = slot]
      first_try == cy.issued[Len(cy.issued) - 1] # fr.op
      op == IF fr.pc = "err" /\ first_try THEN fr.op ELSE SubOp(cy.k + 1, mid, cy.today)
      out == get_invoke(cl, op)
  IN IF fr.pc = "err" /\ ~Caught(fr.exc)
     THEN [cl |-> cl, fr |-> IdleFrame(cl),
           cy |-> [c1 EXCEPT !.pc = "raised", !.escaped = fr.exc]]
     ELSE IF fr.pc = "err" /\ first_try
     THEN [ cl |-> out.cl, fr |-> out.fr,
            cy |-> [c1 EXCEPT !.issued = Append(@, op)] ]
     ELSE IF cy.k < Len(SubKinds)
     THEN [ cl |-> out.cl, fr |-> out.fr,
            cy |-> [c1 EXCEPT !.k = @ + 1, !.per_meter = pm, !.issued = Append(@, op)] ]
     ELSE Advance(cl, fr, c1, cy.meters, pm, cy.i)

\* the time a cycle has been running when n of its fetches have ended, each
\* fetch taking ten seconds
Elapsed(n) == n * 10 * 1000

\* AfterSub that reads the local date again before each fetch
AfterSub_reread_date(cl, fr, cy) ==
  LET c1 == [cy EXCEPT !.ended = Append(@, Ended(fr))]
      mid == cy.meters[cy.i].id.val
      slot == SlotStore(cy.per_meter[mid], SubKinds[cy.k], fr)
      pm == [cy.per_meter EXCEPT ![mid] = slot]
      op == SubOp(cy.k + 1, mid, local_date(cy.now_utc + Elapsed(Len(c1.ended))))
      out == get_invoke(cl, op)
  IN IF fr.pc = "err" /\ ~Caught(fr.exc)
     THEN [cl |-> cl, fr |-> IdleFrame(cl),
           cy |-> [c1 EXCEPT !.pc = "raised", !.escaped = fr.exc]]
     ELSE IF cy.k < Len(SubKinds)
     THEN [ cl |-> out.cl, fr |-> out.fr,
            cy |-> [c1 EXCEPT !.k = @ + 1, !.per_meter = pm, !.issued = Append(@, op)] ]
     ELSE Advance(cl, fr, c1, cy.meters, pm, cy.i)

\* _async_update_data once the k-th sub-fetch of meter i has ended
AfterSub(cl, fr, cy) ==
  LET c1 == [cy EXCEPT !.ended = Append(@, Ended(fr))]
      mid == cy.meters[cy.i].id.val
      slot == SlotStore(cy.per_meter[mid], SubKinds[cy.k], fr)
      pm == [cy.per_meter EXCEPT ![mid] = slot]
      op == SubOp(cy.k + 1, mid, cy.today)
      out == get_invoke(cl, op)
  IN IF fr.pc = "err" /\ ~Caught(fr.exc)
     THEN [cl |-> cl, fr |-> IdleFrame(cl),
           cy |-> [c1 EXCEPT !.pc = "raised", !.escaped = fr.exc]]
     ELSE IF cy.k < Len(SubKinds)
     THEN [ cl |-> out.cl, fr |-> out.fr,
            cy |-> [c1 EXCEPT !.k = @ + 1, !.per_meter = pm, !.issued = Append(@, op)] ]
     ELSE Advance(cl, fr, c1, cy.meters, pm, cy.i)

\* ----------------------------------------------------- setup of the entry
\* entry.data as the config flow stored it
EntryData == [access |-> Jwt(1), refresh |-> Jwt(0), user_id |-> EntryUserId]

\* async_setup_entry up to the POST of its startup refresh_access
SetupClient == refresh_begin(from_tokens(EntryData.access, EntryData.refresh,
                                         EntryData.user_id).val).cl

\* what the config entry may hold when async_setup_entry is called
EntryDatas ==
  [ access : {NoToken, Jwt(1)}, refresh : {NoToken, Jwt(0), CorruptJwt},
    user_id : {EntryUserId} ]

\* the entry before async_setup_entry has run:
\*   result: what async_setup_entry did ("pending", "True", "False", "raised")
\*   posts: refresh requests async_setup_entry sent
\*   coordinator, timer: the coordinator exists, the timer is registered
Init ==
  /\ client = NewClient
  /\ calls = [c \in Callers |-> IdleFrame(NewClient)]
  /\ cyc = IdleCycle
  /\ app \in [ phase : {"boot"}, entry : EntryDatas, reauth : {0}, result : {"pending"},
               posts : {0}, coordinator : {FALSE}, timer : {FALSE} ]
  /\ minted = 0

\* async_setup_entry up to the POST of its startup refresh_access: without both
\* tokens a re-auth flow is started and False returned; from_tokens may raise
SetupEntry ==
  /\ app.phase = "boot"
  /\ LET ft == from_tokens(app.entry.access, app.entry.refresh, app.entry.user_id)
         rb == refresh_begin(ft.val)
     IN IF app.entry.access = NoToken \/ app.entry.refresh = NoToken
        THEN /\ app' = [app EXCEPT !.phase = "failed", !.reauth = @ + 1, !.result = "False"]
             /\ UNCHANGED client
        ELSE IF ~ft.ok
        THEN /\ app' = [app EXCEPT !.phase = "failed", !.result = "raised"]
             /\ UNCHANGED client
        ELSE IF rb.exc # "none"
        THEN /\ app' = [app EXCEPT !.phase = "failed", !.reauth = @ + 1, !.result = "False"]
             /\ client' = rb.cl
        ELSE /\ app' = [app EXCEPT !.phase = "setup", !.posts = @ + 1]
             /\ client' = rb.cl
  /\ UNCHANGED <<calls, cyc, minted>>

\* SetupAnswer that goes on to the coordinator whatever the startup refresh did
SetupAnswer_ignore_failure ==
  /\ app.phase = "setup"
  /\ \E resp \in RefreshAnswers :
       LET out == refresh_finish(client, resp)
       IN /\ client' = out.cl
          /\ minted' = minted + Mints(resp)
          /\ app' = [app EXCEPT !.phase = "first", !.coordinator = TRUE]
  /\ UNCHANGED <<calls, cyc>>

\* SetupAnswer that registers the timer as soon as the coordinator exists
SetupAnswer_timer_first ==
  /\ app.phase = "setup"
  /\ \E resp \in RefreshAnswers :
       LET out == refresh_finish(client, resp)
           old_access == app.entry.access
       IN /\ client' = out.cl
          /\ minted' = minted + Mints(resp)
          /\ app' = IF out.exc # "none"
                    THEN [app EXCEPT !.phase = "failed", !.reauth = @ + 1,
                                     !.result = "False"]
                    ELSE IF out.cl.access_token # NoToken /\ out.cl.access_token # old_access
                    THEN [app EXCEPT !.phase = "first", !.coordinator = TRUE,
                                     !.timer = TRUE,
                                     !.entry.access = out.cl.access_token,
                                     !.entry.user_id = out.cl.user_id]
                    ELSE [app EXCEPT !.phase = "first", !.coordinator = TRUE,
                                     !.timer = TRUE]
  /\ UNCHANGED <<calls, cyc>>

\* async_setup_entry from the answer to the startup refresh on: persist the new
\* access token and create the coordinator, or start a re-auth flow and give up
SetupAnswer ==
  /\ app.phase = "setup"
  /\ \E resp \in RefreshAnswers :
       LET out == refresh_finish(client, resp)
           old_access == app.entry.access
       IN /\ client' = out.cl
          /\ minted' = minted + Mints(resp)
          /\ app' = IF out.exc # "none"
                    THEN [app EXCEPT !.phase = "failed", !.reauth = @ + 1,
                                     !.result = "False"]
                    ELSE IF out.cl.access_token # NoToken /\ out.cl.access_token # old_access
                    THEN [app EXCEPT !.phase = "first", !.coordinator = TRUE,
                                     !.entry.access = out.cl.access_token,
                                     !.entry.user_id = out.cl.user_id]
                    ELSE [app EXCEPT !.phase = "first", !.coordinator = TRUE]
  /\ UNCHANGED <<calls, cyc>>

\* _async_update_data runs on from a fetch that has ended, without a break,
\* until a fetch waits for the provider or the cycle is over
RECURSIVE Resume(_, _, _)
Resume(cl, fr, cy) ==
  IF ~Finished(fr) \/ cy.pc \notin {"meters", "sub"} THEN [cl |-> cl, fr |-> fr, cy |-> cy]
  ELSE LET nx == IF cy.pc = "meters" THEN AfterMeters(cl, fr, cy) ELSE AfterSub(cl, fr, cy)
       IN Resume(nx.cl, nx.fr, nx.cy)

\* async_config_entry_first_refresh: the first cycle begins
FirstRefresh ==
  /\ app.phase = "first" /\ cyc.pc = "idle"
  /\ \E now \in {SetupInstant} :
       LET b == CycleBegin(client, cyc, now)
           out == Resume(b.cl, b.fr, b.cy)
       IN /\ client' = out.cl
          /\ calls' = [calls EXCEPT ![Coord] = out.fr]
          /\ cyc' = out.cy
  /\ UNCHANGED <<app, minted>>

\* async_setup_entry after the first refresh: timer registered, handles stored
SetupDone ==
  /\ app.phase = "first" /\ cyc.pc = "returned"
  /\ app' = [app EXCEPT !.phase = "running", !.timer = TRUE, !.result = "True"]
  /\ UNCHANGED <<client, calls, cyc, minted>>

\* _on_tick: the timer requests a refresh and the next cycle begins
Tick ==
  /\ app.phase = "running" /\ cyc.pc = "returned" /\ cyc.n < MaxCycles
  /\ \E now \in {NextTick(cyc.now_utc)} :
       LET b == CycleBegin(client, cyc, now)
           out == Resume(b.cl, b.fr, b.cy)
       IN /\ client' = out.cl
          /\ calls' = [calls EXCEPT ![Coord] = out.fr]
          /\ cyc' = out.cy
  /\ UNCHANGED <<app, minted>>

InCycle == cyc.pc \in {"meters", "sub"}

\* the first GET of the cycle's current fetch is answered
CycleFirstAnswer ==
  /\ InCycle /\ calls[Coord].pc = "get1"
  /\ \E resp \in GetAnswers(calls[Coord].op, 1) :
       LET a == on_first(client, calls[Coord], resp)
           out == Resume(a.cl, a.fr, cyc)
       IN /\ client' = out.cl
          /\ calls' = [calls EXCEPT ![Coord] = out.fr]
          /\ cyc' = out.cy
  /\ UNCHANGED <<app, minted>>

\* the refresh POST of the cycle's current fetch is answered
CycleRefreshAnswer ==
  /\ InCycle /\ calls[Coord].pc = "refresh"
  /\ \E resp \in RefreshAnswers :
       LET a == on_refresh(client, calls[Coord], resp)
           out == Resume(a.cl, a.fr, cyc)
       IN /\ client' = out.cl
          /\ calls' = [calls EXCEPT ![Coord] = out.fr]
          /\ cyc' = out.cy
          /\ minted' = minted + Mints(resp)
  /\ UNCHANGED app

\* the retried GET of the cycle's current fetch is answered
CycleRetryAnswer ==
  /\ InCycle /\ calls[Coord].pc = "get2"
  /\ \E resp \in GetAnswers(calls[Coord].op, 2) :
       LET a == on_retry(client, calls[Coord], resp)
           out == Resume(a.cl, a.fr, cyc)
       IN /\ client' = out.cl
          /\ calls' = [calls EXCEPT ![Coord] = out.fr]
          /\ cyc' = out.cy
  /\ UNCHANGED <<app, minted>>

Next ==
  \/ SetupEntry
  \/ SetupAnswer
  \/ FirstRefresh
  \/ SetupDone
  \/ Tick
  \/ CycleFirstAnswer
  \/ CycleRefreshAnswer
  \/ CycleRetryAnswer

Spec == Init /\ [][Next]_vars

\* _on_tick after the cycles the model counts: the timer stays registered and
\* fires every hour for as long as the entry is loaded; the cycle number and the
\* clock hold at their bound
TickAgain ==
  /\ app.phase = "running" /\ cyc.pc = "returned" /\ cyc.n = MaxCycles
  /\ \E now \in {cyc.now_utc} :
       LET b == CycleBegin(client, [cyc EXCEPT !.n = MaxCycles - 1], now)
           out == Resume(b.cl, b.fr, b.cy)
       IN /\ client' = out.cl
          /\ calls' = [calls EXCEPT ![Coord] = out.fr]
          /\ cyc' = out.cy
  /\ UNCHANGED <<app, minted>>

NextRun ==
  \/ SetupEntry
  \/ SetupAnswer
  \/ FirstRefresh
  \/ SetupDone
  \/ Tick
  \/ TickAgain
  \/ CycleFirstAnswer
  \/ CycleRefreshAnswer
  \/ CycleRetryAnswer

\* the integration left running: the event loop runs every callback that is
\* ready and every request sent is answered or fails
FairSpec == Init /\ [][NextRun]_vars /\ WF_vars(NextRun)

\* ------------------------------------------------- day windows over time
\* the windows the coordinator computes, over a clock that runs through the
\* calendar: today = datetime.now(euwarsaw()).date(), then both windows of
\* today and the exclusive window of the day after
MaxDay == 5

InitTime ==
  /\ client = NewClient
  /\ calls = [c \in Callers |-> IdleFrame(NewClient)]
  /\ cyc = IdleCycle
  /\ minted = 0
  /\ app = [ phase |-> "clock", now |-> 0, today |-> 0,
             excl |-> <<0, 0>>, incl |-> <<0, 0>>, next |-> <<0, 0>> ]

\* an hour passes
ClockStep ==
  /\ app.now + HourMs < (MaxDay + 1) * DayMs
  /\ app' = [app EXCEPT !.phase = "clock", !.now = app.now + HourMs]
  /\ UNCHANGED <<client, calls, cyc, minted>>

\* the windows of the local date of the clock's instant are computed
Windows ==
  /\ app.phase = "clock"
  /\ LET today == local_date(app.now)
     IN app' = [app EXCEPT !.phase = "windows", !.today = today,
                           !.excl = local_day_window_utc(today),
                           !.incl = local_day_window_utc_ms(today),
                           !.next = local_day_window_utc(today + 1)]
  /\ UNCHANGED <<client, calls, cyc, minted>>

NextTime ==
  \/ ClockStep
  \/ Windows

SpecTime == InitTime /\ [][NextTime]_vars

\* ------------------------------------------- decoding of the day responses
\* what a frame quantity or a day total of a response may be: a number, null,
\* the empty string, a string that is no numeral
Quantities == {Some(0), Some(3), None, Str(""), Str("abc")}

\* a dict with key k, or without it
WithKey(k, vals) == {k :> v : v \in vals} \cup {EmptyDict}

MaxFrames == 2

\* bodies of a day response whose quantity key is q and whose total key is t
DayBodies(q, t) ==
  { ("frames" :> fs) @@ tot :
      fs \in UNION {[1..n -> WithKey(q, Quantities)] : n \in 0..MaxFrames},
      tot \in WithKey(t, Quantities) }

InitDecode ==
  /\ client = NewClient
  /\ calls = [c \in Callers |-> IdleFrame(NewClient)]
  /\ cyc = IdleCycle
  /\ minted = 0
  /\ app \in [ phase : {"body"}, kind : {"usage"},
               data : DayBodies("fae_usage", "fae_total_usage"), result : {Raise("none")} ]
        \cup [ phase : {"body"}, kind : {"cost"},
               data : DayBodies("fae_cost", "fae_total_cost"), result : {Raise("none")} ]

\* get_power_usage_day from the body of _get_json on
DecodeUsage ==
  /\ app.phase = "body" /\ app.kind = "usage"
  /\ app' = [app EXCEPT !.phase = "decoded",
                        !.result = PowerUsageDay_from_api_dict(app.data)]
  /\ UNCHANGED <<client, calls, cyc, minted>>

\* get_power_cost_day from the body of _get_json on
DecodeCost ==
  /\ app.phase = "body" /\ app.kind = "cost"
  /\ app' = [app EXCEPT !.phase = "decoded",
                        !.result = Ok(PowerCostDay_from_dict(app.data))]
  /\ UNCHANGED <<client, calls, cyc, minted>>

NextDecode ==
  \/ DecodeUsage
  \/ DecodeCost

SpecDecode == InitDecode /\ [][NextDecode]_vars

\* ------------------------------------------------ the client used directly
\* the client as from_tokens leaves it
LibClient == from_tokens(EntryData.access, EntryData.refresh, EntryData.user_id).val

\* fetches a caller asks for
LibOps == {MetersOp, SubOp(1, 1, SpringDay), SubOp(4, 2, SpringDay)}

InitLib ==
  /\ client = LibClient
  /\ calls = [c \in Callers |-> IdleFrame(LibClient)]
  /\ cyc = IdleCycle
  /\ app = [phase |-> "library", entry |-> EntryData, reauth |-> 0]
  /\ minted = 0

\* the fetch two overlapping callers ask for
ConcOps == {SubOp(1, 1, SpringDay)}

\* caller c calls a get_* of the client
Call(c, ops) ==
  /\ calls[c].pc \in {"idle", "ret", "err"}
  /\ \E op \in ops :
       LET out == get_invoke(client, op)
       IN /\ client' = out.cl
          /\ calls' = [calls EXCEPT ![c] = out.fr]
  /\ UNCHANGED <<cyc, app, minted>>

\* one caller: each fetch ends before the next is called
NextSeq ==
  \/ Call(Coord, LibOps)
  \/ FirstAnswer(Coord)
  \/ RefreshAnswer(Coord)
  \/ RetryAnswer(Coord)

SpecSeq == InitLib /\ [][NextSeq]_vars

\* two callers whose fetches overlap
NextConc ==
  \E c \in Callers :
    \/ Call(c, ConcOps)
    \/ FirstAnswer(c)
    \/ RefreshAnswer(c)
    \/ RetryAnswer(c)

SpecConc == InitLib /\ [][NextConc]_vars

\* ------------------------------------------- the operations of the client
\* most ClientSession objects one client makes in a run
MaxSessions == 2

\* a well-formed token whose payload has neither iat nor exp
NoClaimsJwt == <<"hdr", Segment(EmptyDict), "sig">>

\* token strings a caller may hand to from_tokens
TokenPool == {NoToken, OpaqueToken, CorruptJwt, NoClaimsJwt, Jwt(0), Jwt(1)}

Credentials == [email |-> Some("e"), password |-> Some("p")]

\* answers to POST /auth/token/
LoginAnswers ==
  { NetFail(0), Answer(0, 401, EmptyDict) }
  \cup { Answer(0, 200, a @@ r @@ u) :
           a \in { EmptyDict, "access" :> Jwt(1), "access" :> CorruptJwt },
           r \in { EmptyDict, "refresh" :> Jwt(0), "refresh" :> CorruptJwt },
           u \in { EmptyDict, "user_id" :> ProviderUserId } }

\* login up to the POST: [cl, exc]
login_begin(cl) ==
  LET c1 == ensure_session(cl)
  IN IF IsNone(c1.email) \/ IsNone(c1.password) THEN [cl |-> c1, exc |-> "RuntimeError"]
     ELSE [cl |-> c1, exc |-> "none"]

\* login_finish without the check of the three fields
login_finish_no_validate(cl, resp) ==
  IF resp.neterr THEN [cl |-> cl, exc |-> "RuntimeError"]
  ELSE IF resp.status # 200 THEN [cl |-> cl, exc |-> "RuntimeError"]
  ELSE
    LET c1 == [cl EXCEPT !.refresh_token = Get(resp.data, "refresh", NoToken),
                         !.access_token = Get(resp.data, "access", NoToken),
                         !.user_id = Get(resp.data, "user_id", None)]
        da == decode_jwt(c1.access_token)
        c2 == [c1 EXCEPT !.AccessIssuedAt = Some(Stamp(da.val, "iat")),
                         !.AccessExpires = Some(Stamp(da.val, "exp"))]
        dr == decode_jwt(c1.refresh_token)
    IN [cl |-> [c2 EXCEPT !.RefreshIssuedAt = Some(Stamp(dr.val, "iat")),
                          !.RefreshExpires = Some(Stamp(dr.val, "exp"))],
        exc |-> "none"]

\* login from the answer on: [cl, exc]
login_finish(cl, resp) ==
  IF resp.neterr THEN [cl |-> cl, exc |-> "RuntimeError"]
  ELSE IF resp.status # 200 THEN [cl |-> cl, exc |-> "RuntimeError"]
  ELSE
    LET c1 == [cl EXCEPT !.refresh_token = Get(resp.data, "refresh", NoToken),
                         !.access_token = Get(resp.data, "access", NoToken),
                         !.user_id = Get(resp.data, "user_id", None)]
        da == decode_jwt(c1.access_token)
        c2 == [c1 EXCEPT !.AccessIssuedAt = Some(Stamp(da.val, "iat")),
                         !.AccessExpires = Some(Stamp(da.val, "exp"))]
        dr == decode_jwt(c1.refresh_token)
    IN IF c1.access_token = NoToken \/ c1.refresh_token = NoToken \/ IsNone(c1.user_id)
       THEN [cl |-> c1, exc |-> "RuntimeError"]
       ELSE IF ~da.ok THEN [cl |-> c1, exc |-> da.exc]
       ELSE IF ~dr.ok THEN [cl |-> c2, exc |-> dr.exc]
       ELSE [cl |-> [c2 EXCEPT !.RefreshIssuedAt = Some(Stamp(dr.val, "iat")),
                               !.RefreshExpires = Some(Stamp(dr.val, "exp"))],
             exc |-> "none"]

\* aclose: the session the client holds is closed and let go
aclose(cl) ==
  IF cl.session # 0
  THEN [cl EXCEPT !.sessions[cl.session] = @ + 1, !.session = 0]
  ELSE cl

LoginOp == Op("login", 0, NoWindow)
RefreshOp == Op("refresh_access", 0, NoWindow)
AcloseOp == Op("aclose", 0, NoWindow)

\* the fetch the caller asks for
ClientOps == {SubOp(2, 1, SpringDay)}

\* how the client came to be: nothing yet, the constructor, or from_tokens
NotBuilt == [how |-> "none", access |-> NoToken, refresh |-> NoToken, ok |-> FALSE,
             exc |-> "none"]

InitClient ==
  /\ client = NewClient
  /\ calls = [c \in Callers |-> IdleFrame(NewClient)]
  /\ cyc = IdleCycle
  /\ app = [phase |-> "start", built |-> NotBuilt]
  /\ minted = 0

\* PstrykApiClient(email, password)
Construct ==
  /\ app.phase = "start"
  /\ client' = [NewClient EXCEPT !.email = Credentials.email,
                                 !.password = Credentials.password]
  /\ app' = [phase |-> "ready",
             built |-> [NotBuilt EXCEPT !.how = "init", !.ok = TRUE]]
  /\ UNCHANGED <<calls, cyc, minted>>

\* PstrykApiClient.from_tokens(access, refresh, user_id): a client, or an error
\* and no client
FromTokens ==
  /\ app.phase = "start"
  /\ \E access \in TokenPool, refresh \in TokenPool, user_id \in {None, EntryUserId} :
       LET out == from_tokens(access, refresh, user_id)
           built == [how |-> "from_tokens", access |-> access, refresh |-> refresh,
                     ok |-> out.ok, exc |-> out.exc]
       IN /\ client' = IF out.ok THEN out.val ELSE client
          /\ app' = [phase |-> IF out.ok THEN "ready" ELSE "failed", built |-> built]
  /\ UNCHANGED <<calls, cyc, minted>>

\* no operation of the caller is under way
AtRest == app.phase = "ready" /\ calls[Coord].pc \in {"idle", "ret", "err"}

\* the run has room for the session an operation may make
Room == client.session # 0 \/ Len(client.sessions) < MaxSessions

\* the caller calls login
LoginCall ==
  /\ AtRest /\ Room
  /\ LET out == login_begin(client)
         fr == [IdleFrame(client) EXCEPT !.op = LoginOp]
     IN /\ client' = out.cl
        /\ calls' = [calls EXCEPT ![Coord] =
                       IF out.exc # "none" THEN Failed(fr, out.exc)
                       ELSE [fr EXCEPT !.pc = "login", !.posts = 1]]
  /\ UNCHANGED <<cyc, app, minted>>

\* the POST of login is answered
LoginAnswer ==
  /\ calls[Coord].pc = "login"
  /\ \E resp \in LoginAnswers :
       LET out == login_finish(client, resp)
           fr == [calls[Coord] EXCEPT !.r1 = resp]
       IN /\ client' = out.cl
          /\ calls' = [calls EXCEPT ![Coord] =
                         IF out.exc # "none" THEN Failed(fr, out.exc)
                         ELSE [fr EXCEPT !.pc = "ret"]]
  /\ UNCHANGED <<cyc, app, minted>>

\* the caller calls refresh_access
RefreshCall ==
  /\ AtRest /\ Room
  /\ LET out == refresh_begin(client)
         fr == [IdleFrame(client) EXCEPT !.op = RefreshOp, !.refreshes = 1]
     IN /\ client' = out.cl
        /\ calls' = [calls EXCEPT ![Coord] =
                       IF out.exc # "none" THEN Failed(fr, out.exc)
                       ELSE [fr EXCEPT !.pc = "rpost", !.posts = 1]]
  /\ UNCHANGED <<cyc, app, minted>>

\* the POST of a refresh_access the caller called is answered
RefreshCallAnswer ==
  /\ calls[Coord].pc = "rpost"
  /\ \E resp \in RefreshAnswers :
       LET out == refresh_finish(client, resp)
           fr == [calls[Coord] EXCEPT !.r1 = resp]
       IN /\ client' = out.cl
          /\ calls' = [calls EXCEPT ![Coord] =
                         IF out.exc # "none" THEN Failed(fr, out.exc)
                         ELSE [fr EXCEPT !.pc = "ret"]]
          /\ minted' = minted + Mints(resp)
  /\ UNCHANGED <<cyc, app>>

\* the caller calls a get_*
GetCall ==
  /\ AtRest /\ Room
  /\ \E op \in ClientOps :
       LET out == get_invoke(client, op)
       IN /\ client' = out.cl
          /\ calls' = [calls EXCEPT ![Coord] = out.fr]
  /\ UNCHANGED <<cyc, app, minted>>

\* the caller calls _get_json itself
GetJsonCall ==
  /\ AtRest /\ Room
  /\ \E op \in ClientOps :
       LET out == get_json_invoke(client, op)
       IN /\ client' = out.cl
          /\ calls' = [calls EXCEPT ![Coord] = out.fr]
  /\ UNCHANGED <<cyc, app, minted>>

\* the caller calls aclose
Aclose ==
  /\ AtRest
  /\ client' = aclose(client)
  /\ calls' = [calls EXCEPT ![Coord] =
                 [IdleFrame(client) EXCEPT !.op = AcloseOp, !.pc = "ret"]]
  /\ UNCHANGED <<cyc, app, minted>>

NextClient ==
  \/ Construct
  \/ FromTokens
  \/ LoginCall
  \/ LoginAnswer
  \/ RefreshCall
  \/ RefreshCallAnswer
  \/ GetCall
  \/ GetJsonCall
  \/ FirstAnswer(Coord)
  \/ RefreshAnswer(Coord)
  \/ RetryAnswer(Coord)
  \/ Aclose

SpecClient == InitClient /\ [][NextClient]_vars

\* ------------------------------------------------------------- properties
Got401(fr) == fr.r1.ord = 1 /\ ~fr.r1.neterr /\ fr.r1.status = 401
Retry200(fr) == fr.r2.ord = 2 /\ ~fr.r2.neterr /\ fr.r2.status = 200

\* C1: a fetch whose first GET is answered 401 makes exactly one refresh_access
\* call and at most one further GET, which carries the token that refresh
\* obtained; it ends in an error unless the retry is answered 200; no fetch
\* sends more than 2 GETs or makes more than 1 refresh.
C1_OneRefreshOneRetry ==
  LET fr == calls[Coord]
  IN /\ fr.gets <= 2 /\ fr.refreshes <= 1 /\ fr.posts <= 1
     /\ Got401(fr) =>
          /\ fr.refreshes = 1
          /\ fr.pc \in {"refresh", "get2", "ret", "err"}
          /\ fr.gets = 2 => (fr.got # NoToken /\ fr.hdr = fr.got)
          /\ fr.pc = "ret" => Retry200(fr)
          /\ (Finished(fr) /\ ~Retry200(fr)) => fr.pc = "err"

\* C1 witness: a second 401 on the retry ended the fetch in an error
C1_Witness ==
  LET fr == calls[Coord]
  IN Got401(fr) /\ fr.pc = "err" /\ fr.gets = 2 /\ fr.refreshes = 1
       /\ ~fr.r2.neterr /\ fr.r2.status = 401

\* C2: after 401, a successful refresh and a 200 on the retry, the fetch
\* returns the retried answer's body and the client holds the refreshed token.
C2_ReturnsRetriedBody ==
  LET fr == calls[Coord]
  IN (fr.pc = "ret" /\ Got401(fr)) =>
       /\ fr.ret.ord = 2
       /\ fr.ret = fr.r2
       /\ fr.got # NoToken
       /\ client.access_token = fr.got

\* C2 witness: a meter list of two records came back on the retry
C2_Witness ==
  LET fr == calls[Coord]
  IN fr.pc = "ret" /\ Got401(fr) /\ fr.op.kind = "meters" /\ Len(fr.ret.data) = 2

TokenFields(cl) ==
  <<cl.access_token, cl.refresh_token, cl.AccessIssuedAt, cl.AccessExpires,
    cl.RefreshIssuedAt, cl.RefreshExpires, cl.user_id>>

OtherStatus(fr) == fr.r1.ord = 1 /\ ~fr.r1.neterr /\ fr.r1.status \notin {200, 401}

\* C3: a first answer that is neither 200 nor 401 fails the fetch at once: one
\* GET, no refresh_access call, no retry, token fields and user id unchanged.
C3_OtherStatusFailsAtOnce ==
  LET fr == calls[Coord]
  IN OtherStatus(fr) =>
       /\ fr.pc = "err"
       /\ fr.gets = 1 /\ fr.refreshes = 0 /\ fr.posts = 0
       /\ fr.r2 = NoResp
       /\ TokenFields(client) = TokenFields(fr.pre)

\* C3 witness: a 500 failed a fetch made with a token a refresh had obtained
C3_Witness ==
  LET fr == calls[Coord]
  IN OtherStatus(fr) /\ fr.pc = "err" /\ minted > 0

\* C4: at most one refresh request of a client is in flight at any time.
C4_SingleFlightRefresh ==
  Cardinality({c \in Callers : calls[c].pc = "refresh"}) <= 1

\* --- the refresh cycle
Returned == cyc.pc = "returned"

\* identifiers in the body of the meter list the cycle fetched ({} when the
\* fetch failed)
FetchedIds ==
  IF Len(cyc.ended) = 0 \/ ~cyc.ended[1].ok THEN {}
  ELSE LET raw == cyc.ended[1].data
       IN { raw[x]["id"].val : x \in {y \in 1..Len(raw) : "id" \in DOMAIN raw[y]} }

\* the fetches a cycle is to make for a meter list, in order
RECURSIVE SubFetchesOf(_, _)
SubFetchesOf(raw, today) ==
  IF raw = <<>> THEN <<>>
  ELSE (IF "id" \in DOMAIN Head(raw)
        THEN [k \in 1..5 |-> SubOp(k, Head(raw)["id"].val, today)]
        ELSE <<>>) \o SubFetchesOf(Tail(raw), today)

Present(slot, key, v) == key \in DOMAIN slot /\ slot[key].some /\ slot[key].val = v
Absent(slot, key) == key \in DOMAIN slot /\ ~slot[key].some

\* the slot holds what the fetch recorded as e returned, or None where it failed
SlotAgrees(slot, e) ==
  LET v == Decode(e.op, e.data)
  IN IF e.op.kind = "usage" THEN
       IF e.ok
       THEN /\ Present(slot, "power_usage_frames", v.frames)
            /\ Present(slot, "power_usage_totals",
                       [ fae_total_usage |-> v.fae_total_usage, rae_total |-> v.rae_total,
                         energy_balance |-> v.energy_balance ])
       ELSE Absent(slot, "power_usage_frames") /\ Absent(slot, "power_usage_totals")
     ELSE IF e.op.kind = "cost" THEN
       IF e.ok
       THEN /\ Present(slot, "power_cost_frames", v.frames)
            /\ Present(slot, "power_cost_totals",
                       [ fae_total_cost |-> v.fae_total_cost,
                         total_energy_sold_value |-> v.total_energy_sold_value,
                         total_vat |-> v.total_vat ])
       ELSE Absent(slot, "power_cost_frames") /\ Absent(slot, "power_cost_totals")
     ELSE IF e.ok THEN Present(slot, e.op.kind, v) ELSE Absent(slot, e.op.kind)

\* C5: in the returned snapshot the entry of every meter with an identifier has
\* None in exactly the fields whose sub-fetch failed and the fetched value in
\* every other field, and whatever failed, all five sub-fetches of every such
\* meter were made.
C5_FailureIsolation ==
  Returned =>
    /\ cyc.ended[1].ok =>
         cyc.issued = <<MetersOp>> \o SubFetchesOf(cyc.ended[1].data, cyc.today)
    /\ Len(cyc.ended) = Len(cyc.issued)
    /\ \A x \in 2..Len(cyc.ended) :
         /\ cyc.ended[x].op = cyc.issued[x]
         /\ cyc.ended[x].op.mid \in DOMAIN cyc.snap.per_meter
         /\ SlotAgrees(cyc.snap.per_meter[cyc.ended[x].op.mid], cyc.ended[x])

\* C5 witness: of the ten sub-fetches of two meters only the usage fetch of the
\* first failed
C5_Witness ==
  /\ Returned /\ Len(cyc.ended) = 11
  /\ \A x \in 1..11 : cyc.ended[x].ok <=> x # 5
  /\ cyc.ended[5].op.kind = "usage"

ProperWindow(w) == 0 < w[1] /\ w[1] < w[2]

\* C6: when the meter-list fetch fails the cycle raises nothing and returns a
\* snapshot with no meters, no per-meter entries, its timestamp and its four
\* windows; no sub-fetch is made.
C6_MeterListFailure ==
  (Len(cyc.ended) > 0 /\ ~cyc.ended[1].ok) =>
    /\ Returned
    /\ cyc.snap.made
    /\ cyc.snap.meters = <<>>
    /\ DOMAIN cyc.snap.per_meter = {}
    /\ cyc.snap.ts_utc = cyc.now_utc /\ cyc.snap.ts_utc > 0
    /\ \A k \in {"buy", "sell", "usage", "cost"} : ProperWindow(cyc.snap.windows[k])
    /\ cyc.issued = <<MetersOp>>

\* C6 witness: get_meters failed on a second 401, after its one refresh
C6_Witness ==
  /\ Returned /\ ~cyc.ended[1].ok
  /\ cyc.meters_err = [exc |-> "RuntimeError", gets |-> 2, refreshes |-> 1, status |-> 401]

\* C7: whatever the fetches of a cycle do, no error escapes
\* _async_update_data, and a cycle that is over has returned a snapshot.
C7_NothingEscapes ==
  /\ cyc.pc # "raised"
  /\ cyc.escaped = "none"
  /\ (cyc.pc \notin {"idle", "meters", "sub"}) => (Returned /\ cyc.snap.made)

\* C7 witness: all ten sub-fetches of two meters failed and the cycle returned
C7_Witness ==
  /\ Returned /\ Len(cyc.ended) = 11
  /\ \A x \in 2..11 : ~cyc.ended[x].ok

\* C8: the keys of the per-meter map are the non-null identifiers of the
\* fetched meter list; a meter without identifier gets no sub-fetch and no
\* entry, and the meters after it are still processed.
C8_KeysAreMeterIds ==
  Returned =>
    /\ DOMAIN cyc.snap.per_meter = FetchedIds
    /\ \A x \in 2..Len(cyc.issued) : cyc.issued[x].mid \in FetchedIds
    /\ Len(cyc.issued) = 1 + 5 * Cardinality(FetchedIds)

\* C8 witness: a record without identifier was followed by meter 1
C8_Witness ==
  /\ Returned /\ cyc.ended[1].ok
  /\ Len(cyc.ended[1].data) = 2
  /\ cyc.ended[1].data[1] = EmptyDict
  /\ DOMAIN cyc.snap.per_meter = {1}

\* C9: the meter list of a returned snapshot holds no meter whose identifier
\* is None.
C9_NoMeterWithoutId ==
  Returned => \A x \in 1..Len(cyc.snap.meters) : ~IsNone(cyc.snap.meters[x].id)

SlotKeys ==
  { "alerts", "pricing_buy", "pricing_sell", "power_usage_frames",
    "power_usage_totals", "power_cost_frames", "power_cost_totals" }

\* C10: every entry of the per-meter map of a returned snapshot has all seven
\* keys; a failed sub-fetch shows as None under its key, never as a missing key.
C10_AllKeysPresent ==
  Returned =>
    \A mid \in DOMAIN cyc.snap.per_meter :
      /\ DOMAIN cyc.snap.per_meter[mid] = SlotKeys
      /\ \A x \in 2..Len(cyc.ended) :
           (cyc.ended[x].op.mid = mid /\ ~cyc.ended[x].ok) =>
             \E key \in SlotKeys : ~cyc.snap.per_meter[mid][key].some

\* C10 witness: an entry all of whose seven fields are None
C10_Witness ==
  /\ Returned
  /\ \E mid \in DOMAIN cyc.snap.per_meter :
       \A key \in SlotKeys : Absent(cyc.snap.per_meter[mid], key)

\* --- the operations of the client
SameOpt(a, b) == a.some = b.some /\ (a.some => a.val = b.val)

SameRefreshFields(a, b) ==
  /\ a.refresh_token = b.refresh_token
  /\ SameOpt(a.RefreshIssuedAt, b.RefreshIssuedAt)
  /\ SameOpt(a.RefreshExpires, b.RefreshExpires)

SameAccessFields(a, b) ==
  /\ a.access_token = b.access_token
  /\ SameOpt(a.AccessIssuedAt, b.AccessIssuedAt)
  /\ SameOpt(a.AccessExpires, b.AccessExpires)

SameCredentials(a, b) == SameOpt(a.email, b.email) /\ SameOpt(a.password, b.password)

\* the refresh POST of the frame was answered 200 with a token that decodes
RefreshOk(resp) ==
  /\ ~resp.neterr /\ resp.status = 200
  /\ decode_jwt(Get(resp.data, "access", NoToken)).ok

\* C11: no refresh_access call, called by the caller or made inside a fetch,
\* answered or not, successful or failed, changes the refresh token or its
\* issued/expiry fields; a successful one leaves the credentials alone as well
\* and stores the new access token with its issued/expiry claims.
C11_RefreshTokenUntouched ==
  LET fr == calls[Coord]
  IN /\ (fr.refreshes > 0 /\ fr.op # LoginOp) => SameRefreshFields(client, fr.pre)
     /\ (fr.op = RefreshOp /\ fr.pc = "ret") =>
          /\ SameCredentials(client, fr.pre)
          /\ RefreshOk(fr.r1)
          /\ client.access_token = fr.r1.data["access"]
          /\ client.AccessExpires =
               Some(Stamp(decode_jwt(client.access_token).val, "exp"))

\* C11 witness: a refresh_access call replaced the access token of a client
\* made by from_tokens
C11_Witness ==
  LET fr == calls[Coord]
  IN /\ fr.op = RefreshOp /\ fr.pc = "ret"
     /\ app.built.how = "from_tokens"
     /\ client.access_token # fr.pre.access_token
     /\ client.refresh_token = fr.pre.refresh_token

\* C12: a successful refresh_access whose answer carries no user_id leaves the
\* client's user id as it was before the call.
C12_UserIdKeptWithoutNewOne ==
  LET fr == calls[Coord]
  IN (fr.op = RefreshOp /\ fr.pc = "ret" /\ "user_id" \notin DOMAIN fr.r1.data) =>
       SameOpt(client.user_id, fr.pre.user_id)

\* the answer makes refresh_access fail before it stores anything: a transport
\* error, a status other than 200, or a 200 without "access"
RefusedRefresh(resp) ==
  \/ resp.neterr
  \/ resp.status # 200
  \/ Get(resp.data, "access", NoToken) = NoToken

\* C13: refresh_access that fails on a transport error, a non-200 answer or a
\* 200 answer without access raises an error and leaves access token, access
\* issued/expiry fields and user id as they were.
C13_FailedRefreshChangesNothing ==
  LET fr == calls[Coord]
  IN (fr.op = RefreshOp /\ fr.posts = 1 /\ fr.pc # "rpost" /\ RefusedRefresh(fr.r1)) =>
       /\ fr.pc = "err" /\ fr.exc = "RuntimeError"
       /\ SameAccessFields(client, fr.pre)
       /\ SameOpt(client.user_id, fr.pre.user_id)

\* C13 witness: a 200 answer without access failed the call of a client that
\* holds a user id
C13_Witness ==
  LET fr == calls[Coord]
  IN /\ fr.op = RefreshOp /\ fr.pc = "err"
     /\ ~fr.r1.neterr /\ fr.r1.status = 200 /\ RefusedRefresh(fr.r1)
     /\ fr.pre.user_id.some /\ fr.pre.access_token = Jwt(1)

\* C14: refresh_access on a client without a refresh token fails with a
\* RuntimeError, sends no request and changes no token field; inside a fetch
\* the same holds for the refresh after a 401.
C14_NoRefreshTokenNoRequest ==
  LET fr == calls[Coord]
  IN (fr.refreshes > 0 /\ fr.op # LoginOp /\ fr.pre.refresh_token = NoToken) =>
       /\ fr.pc = "err" /\ fr.exc = "RuntimeError"
       /\ fr.posts = 0
       /\ TokenFields(client) = TokenFields(fr.pre)

\* C14 witness: refresh_access was called on a client built with credentials
\* that has not logged in
C14_Witness ==
  LET fr == calls[Coord]
  IN /\ fr.op = RefreshOp /\ fr.pc = "err" /\ fr.posts = 0
     /\ app.built.how = "init" /\ client.refresh_token = NoToken

IsFetch(fr) == fr.op \in ClientOps

\* C15: a fetch (a get_* or _get_json itself) on a client without an access
\* token fails with a RuntimeError; no GET goes out, no refresh_access is
\* called and no refresh request is sent.
C15_NoAccessTokenNoRequest ==
  LET fr == calls[Coord]
  IN (IsFetch(fr) /\ fr.pc # "idle" /\ fr.pre.access_token = NoToken) =>
       /\ fr.pc = "err" /\ fr.exc = "RuntimeError"
       /\ fr.gets = 0 /\ fr.refreshes = 0 /\ fr.posts = 0
       /\ fr.r1 = NoResp

\* C15 witness: the fetch failed on a client that holds a refresh token but no
\* access token
C15_Witness ==
  LET fr == calls[Coord]
  IN /\ IsFetch(fr) /\ fr.pc = "err" /\ fr.gets = 0
     /\ client.access_token = NoToken /\ client.refresh_token # NoToken

\* the answer to the login POST is a 200 with access, refresh and user_id
FullLoginAnswer(resp) ==
  /\ ~resp.neterr /\ resp.status = 200
  /\ {"access", "refresh", "user_id"} \subseteq DOMAIN resp.data

\* C16: login returns only on a 200 answer with access, refresh and user_id,
\* and then the client holds exactly these, all non-empty; a transport
\* failure, another status or an answer lacking one of the three raises.
C16_LoginAllOrError ==
  LET fr == calls[Coord]
  IN /\ (fr.op = LoginOp /\ fr.pc = "ret") =>
          /\ FullLoginAnswer(fr.r1)
          /\ client.access_token # NoToken /\ client.access_token = fr.r1.data["access"]
          /\ client.refresh_token # NoToken /\ client.refresh_token = fr.r1.data["refresh"]
          /\ client.user_id.some /\ SameOpt(client.user_id, fr.r1.data["user_id"])
     /\ (fr.op = LoginOp /\ fr.posts = 1 /\ fr.pc # "login" /\ ~FullLoginAnswer(fr.r1)) =>
          fr.pc = "err"

\* C16 witness: login returned on a client that held no token before
C16_Witness ==
  LET fr == calls[Coord]
  IN /\ fr.op = LoginOp /\ fr.pc = "ret"
     /\ fr.pre.access_token = NoToken /\ fr.pre.refresh_token = NoToken

Decodable(token) == decode_jwt(token).ok

\* C17: from_tokens given an access or a refresh token that does not decode
\* raises ValueError and yields no client.
C17_CorruptTokenNoClient ==
  (app.built.how = "from_tokens"
     /\ (~Decodable(app.built.access) \/ ~Decodable(app.built.refresh))) =>
    /\ ~app.built.ok /\ app.built.exc = "ValueError"
    /\ app.phase = "failed"
    /\ client = NewClient

\* C17 witness: a good access token came with a refresh token whose payload
\* does not decode
C17_Witness ==
  /\ app.built.how = "from_tokens" /\ ~app.built.ok
  /\ app.built.access = Jwt(1) /\ app.built.refresh = CorruptJwt

\* the recorded expiry of the access token lies in the past
AccessExpired(cl) == cl.AccessExpires.some /\ cl.AccessExpires.val < LibNow

\* C18: expiry is informational: from_tokens succeeds for every pair of tokens
\* that decode, whatever their exp; a fetch on a client with an access token
\* sends its GET with that token, expired or not; and a refresh request goes
\* out inside a fetch only after a GET of that fetch was answered 401.
C18_ExpiryNotEnforced ==
  LET fr == calls[Coord]
  IN /\ (app.built.how = "from_tokens"
           /\ Decodable(app.built.access) /\ Decodable(app.built.refresh)) => app.built.ok
     /\ (IsFetch(fr) /\ fr.pc # "idle" /\ fr.pre.access_token # NoToken) =>
          /\ fr.gets >= 1
          /\ fr.r1.ord = 0 => (fr.hdr = fr.pre.access_token /\ fr.posts = 0)
     /\ (IsFetch(fr) /\ (fr.posts > 0 \/ fr.refreshes > 0)) => Got401(fr)

\* C18 witness: a client made by from_tokens from an expired access token
\* fetched with that token, was answered 200 and sent no refresh request
C18_Witness ==
  LET fr == calls[Coord]
  IN /\ app.built.how = "from_tokens" /\ app.built.access = Jwt(0)
     /\ AccessExpired(fr.pre)
     /\ IsFetch(fr) /\ fr.pc = "ret" /\ fr.gets = 1 /\ fr.posts = 0
     /\ fr.hdr = Jwt(0)

\* the token decodes to a payload that has both claims
HasClaims(token) ==
  Decodable(token) /\ {"iat", "exp"} \subseteq DOMAIN decode_jwt(token).val

\* C19: login, from_tokens and refresh_access end without error only when the
\* tokens they take the timestamps from decode and carry iat and exp; no
\* timestamp is recorded for a claim that is missing.
C19_NoSilentEpoch ==
  LET fr == calls[Coord]
  IN /\ (app.built.how = "from_tokens" /\ app.built.ok) =>
          (HasClaims(app.built.access) /\ HasClaims(app.built.refresh))
     /\ (fr.op = RefreshOp /\ fr.pc = "ret") => HasClaims(client.access_token)
     /\ (fr.op = LoginOp /\ fr.pc = "ret") =>
          (HasClaims(client.access_token) /\ HasClaims(client.refresh_token))

OpenSessions(cl) == {x \in 1..Len(cl.sessions) : cl.sessions[x] = 0}

\* C20: with the operations of a client run one after another, at most one of
\* its sessions is open and that one is the session the client holds (so a
\* session is made only when none is held), no session is closed twice, and
\* aclose leaves the client without a session; aclose on a client that holds
\* none changes nothing and raises nothing.
C20_OneSessionClosedOnce ==
  LET fr == calls[Coord]
  IN /\ Cardinality(OpenSessions(client)) <= 1
     /\ OpenSessions(client) = IF client.session = 0 THEN {} ELSE {client.session}
     /\ \A x \in 1..Len(client.sessions) : client.sessions[x] <= 1
     /\ fr.op = AcloseOp =>
          /\ fr.pc = "ret" /\ fr.exc = "none"
          /\ client.session = 0
          /\ fr.pre.session = 0 => client = fr.pre

\* C20 witness: the first session was closed, a later operation made a second
\* one, and aclose closed that too
C20_Witness ==
  /\ calls[Coord].op = AcloseOp
  /\ client.sessions = <<1, 1>>

\* --- token state, windows and order across the cycles
\* C21: the coordinator's cycles share one client: every GET of a cycle goes
\* out with the access token the client holds, which is the token the provider
\* issued last (or the undecodable one a refresh answer carried), in the cycle
\* of the refresh and in every later one; a refresh request is sent only after
\* a 401 on a GET of the same fetch.
C21_TokenPersistsAcrossCycles ==
  LET fr == calls[Coord]
  IN InCycle =>
       /\ fr.pc \in {"get1", "get2"} => fr.hdr = client.access_token
       /\ client.access_token \in {Jwt(minted + 1), CorruptJwt}
       /\ (fr.posts > 0 \/ fr.refreshes > 0) => Got401(fr)

\* C21 witness: the first GET of the second cycle carries the token a refresh
\* inside the first cycle obtained
C21_Witness ==
  LET fr == calls[Coord]
  IN /\ cyc.n = 2 /\ cyc.issued = <<MetersOp>>
     /\ fr.pc = "get1" /\ fr.gets = 1 /\ fr.refreshes = 0
     /\ minted = 2 /\ fr.hdr = Jwt(3)

ExclusiveKinds == {"pricing_buy", "pricing_sell"}
InclusiveKinds == {"usage", "cost"}

\* C22: within a cycle the buy and sell queries carry one window and the usage
\* and cost queries carry one window; the snapshot reports buy = sell and
\* usage = cost, and reports the windows the queries of the cycle carried.
C22_SharedWindows ==
  /\ \A x, y \in 1..Len(cyc.issued) :
       \/ cyc.issued[x].kind \in ExclusiveKinds /\ cyc.issued[y].kind \in ExclusiveKinds
       \/ cyc.issued[x].kind \in InclusiveKinds /\ cyc.issued[y].kind \in InclusiveKinds
       => cyc.issued[x].win = cyc.issued[y].win
  /\ Returned =>
       /\ cyc.snap.windows.buy = cyc.snap.windows.sell
       /\ cyc.snap.windows.usage = cyc.snap.windows.cost
       /\ \A x \in 1..Len(cyc.issued) :
            /\ cyc.issued[x].kind \in ExclusiveKinds =>
                 cyc.issued[x].win = cyc.snap.windows.buy
            /\ cyc.issued[x].kind \in InclusiveKinds =>
                 cyc.issued[x].win = cyc.snap.windows.usage

\* C22 witness: a cycle over two meters returned; the two windows it reports
\* differ
C22_Witness ==
  /\ Returned /\ Len(cyc.issued) = 11
  /\ cyc.snap.windows.buy # cyc.snap.windows.usage

\* C28: while the integration runs, once a refresh of the client has completed
\* the access token and the user id the entry persists are the client's.
C28_PersistedUpToDate ==
  (app.phase \in {"first", "running"} /\ calls[Coord].pc # "refresh") =>
    /\ app.entry.access = client.access_token
    /\ SameOpt(app.entry.user_id, client.user_id)

\* identifiers of the records of a meter list that have one, in list order
RECURSIVE IdsInOrder(_)
IdsInOrder(raw) ==
  IF raw = <<>> THEN <<>>
  ELSE (IF "id" \in DOMAIN Head(raw) THEN <<Head(raw)["id"].val>> ELSE <<>>)
       \o IdsInOrder(Tail(raw))

FetchOrder == <<"alerts", "pricing_buy", "pricing_sell", "usage", "cost">>

\* C29: the requests of a cycle go out one after another: while the cycle runs
\* exactly one of its fetches waits for the provider and every earlier one has
\* ended; the meter list is fetched first and has ended before a sub-fetch is
\* called; meters are taken in list order and the fetches of a meter in the
\* order alerts, buy, sell, usage, cost.
C29_OneAtATimeInOrder ==
  cyc.pc \in {"meters", "sub", "returned"} =>
    /\ cyc.issued[1] = MetersOp
    /\ Len(cyc.ended) = IF InCycle THEN Len(cyc.issued) - 1 ELSE Len(cyc.issued)
    /\ InCycle <=> calls[Coord].pc \in {"get1", "refresh", "get2"}
    /\ \A x \in 1..Len(cyc.ended) : cyc.ended[x].op = cyc.issued[x]
    /\ Len(cyc.issued) >= 2 =>
         /\ cyc.ended[1].ok
         /\ LET ids == IdsInOrder(cyc.ended[1].data)
            IN \A x \in 2..Len(cyc.issued) :
                 /\ ((x - 2) \div 5) + 1 <= Len(ids)
                 /\ cyc.issued[x].mid = ids[((x - 2) \div 5) + 1]
                 /\ cyc.issued[x].kind = FetchOrder[((x - 2) % 5) + 1]

\* C29 witness: for the list of meter 2 then meter 1, the buy fetch of meter 1
\* waits for its retried GET
C29_Witness ==
  /\ InCycle /\ Len(cyc.issued) = 8 /\ calls[Coord].pc = "get2"
  /\ IdsInOrder(cyc.ended[1].data) = <<2, 1>>
  /\ cyc.issued[8].mid = 1

EntryLacksToken == app.entry.access = NoToken \/ app.entry.refresh = NoToken

\* C30: async_setup_entry returns True only for an entry with both tokens whose
\* startup refresh succeeded. Without a token no client is built and no request
\* sent; after a failed startup refresh there is no coordinator, no first
\* refresh and no timer; either way one re-auth flow is started and False is
\* returned.
C30_SetupAllOrNothing ==
  /\ app.result = "True" =>
       /\ ~EntryLacksToken /\ app.posts = 1 /\ minted >= 1
       /\ app.coordinator /\ app.timer /\ app.reauth = 0
  /\ (app.coordinator \/ app.timer \/ cyc.pc # "idle") =>
       (~EntryLacksToken /\ app.posts = 1 /\ minted >= 1)
  /\ (app.phase # "boot" /\ EntryLacksToken) =>
       /\ app.result = "False" /\ app.reauth = 1
       /\ app.posts = 0 /\ client = NewClient
       /\ ~app.coordinator /\ ~app.timer /\ cyc.pc = "idle"
  /\ (app.phase = "failed" /\ app.posts = 1) =>
       /\ app.result = "False" /\ app.reauth = 1
       /\ ~app.coordinator /\ ~app.timer /\ cyc.pc = "idle"
       /\ calls[Coord].pc = "idle"

\* C30 witness: the startup refresh of an entry with both tokens failed
C30_Witness ==
  /\ app.phase = "failed" /\ app.posts = 1 /\ app.result = "False"
  /\ ~EntryLacksToken /\ minted = 0

\* a cycle of the running integration logged an auth failure of the meter-list
\* fetch: a second 401 after the refresh and the retry, or the refresh rejected
AuthFailure ==
  /\ app.phase \in {"first", "running"}
  /\ cyc.meters_err.exc = "RuntimeError"
  /\ \/ cyc.meters_err.gets = 2 /\ cyc.meters_err.status = 401
     \/ cyc.meters_err.gets = 1 /\ cyc.meters_err.refreshes = 1

\* C27: an auth failure of a fetch of the running integration is eventually
\* followed by the start of a re-authentication flow.
C27_AuthFailureSignalled == [](AuthFailure => <>(app.reauth > 0))

\* --- day windows
\* C23: the exclusive window of a date ends at the instant at which the
\* exclusive window of the next date starts, on every date of the calendar,
\* the dates of a clock change and the dates before them included.
C23_WindowsAdjacent ==
  app.phase = "windows" => app.excl[2] = app.next[1]

\* C23 witness: the window of the day of the spring change ends where the next
\* day's window starts
C23_Witness ==
  /\ app.phase = "windows" /\ app.today = SpringDay
  /\ app.excl[2] = app.next[1]
  /\ app.next[1] = astimezone_utc((SpringDay + 1) * DayMs)

\* C24: the inclusive window of a date starts where the exclusive window of the
\* date starts and ends one millisecond before the exclusive window ends.
C24_InclusiveOneMsShort ==
  app.phase = "windows" =>
    /\ app.incl[1] = app.excl[1]
    /\ app.incl[2] = app.excl[2] - 1

\* C24 witness: the two windows of the day of the autumn change
C24_Witness ==
  /\ app.phase = "windows" /\ app.today = AutumnDay
  /\ app.incl[1] = app.excl[1]
  /\ app.incl[2] + 1 = app.excl[2]

\* C25: the start of the window of date d is the instant at which the zone's
\* clocks read midnight of d, under the offset in force at that instant; the
\* exclusive window spans 23 hours on the day of the spring change, 25 hours on
\* the day of the autumn change and 24 hours on every other date.
C25_ZoneAwareMidnight ==
  app.phase = "windows" =>
    /\ app.excl[1] + offset_at(app.excl[1]) = app.today * DayMs
    /\ app.excl[2] - app.excl[1] =
         IF app.today = SpringDay THEN 23 * HourMs
         ELSE IF app.today = AutumnDay THEN 25 * HourMs
         ELSE 24 * HourMs

\* C25 witness: the 23-hour window of the day of the spring change, which
\* starts under UTC+1 and ends under UTC+2
C25_Witness ==
  /\ app.phase = "windows" /\ app.today = SpringDay
  /\ app.excl[2] - app.excl[1] = 23 * HourMs
  /\ offset_at(app.excl[1]) = HourMs /\ offset_at(app.excl[2]) = 2 * HourMs

\* --- decoding
\* a frame quantity or total that float() does not take
Uncoercible(x) == IsStr(x)

\* C26: a day response decodes to a record whatever its quantities are: the
\* fetch returns, and a frame quantity or a day total that is no number is 0 in
\* the record (a total of the cost day may also be None).
C26_DecodeDegradesToDefault ==
  app.phase = "decoded" =>
    /\ app.result.ok
    /\ LET raw == app.data["frames"]
           out == app.result.val
       IN IF app.kind = "usage"
          THEN /\ \A x \in 1..Len(raw) :
                    Uncoercible(Get(raw[x], "fae_usage", None)) =>
                      out.frames[x].fae_usage = 0
               /\ Uncoercible(Get(app.data, "fae_total_usage", None)) =>
                    out.fae_total_usage = 0
          ELSE /\ \A x \in 1..Len(raw) :
                    Uncoercible(Get(raw[x], "fae_cost", None)) =>
                      out.frames[x].fae_cost = Some(0)
               /\ Uncoercible(Get(app.data, "fae_total_cost", None)) =>
                    out.fae_total_cost \in {Some(0), None}

\* --- token state across failed operations
\* C36: a login that raises leaves the access token, the refresh token and
\* the user id of the client as they were when login was called.
C36_FailedLoginAtomic ==
  LET fr == calls[Coord]
  IN (fr.op = LoginOp /\ fr.pc = "err") =>
       /\ client.access_token = fr.pre.access_token
       /\ client.refresh_token = fr.pre.refresh_token
       /\ SameOpt(client.user_id, fr.pre.user_id)

\* the access bookkeeping of the client is that of the access token it holds
AccessBookkeepingFits(cl) ==
  IF cl.access_token = NoToken
  THEN IsNone(cl.AccessIssuedAt) /\ IsNone(cl.AccessExpires)
  ELSE /\ Decodable(cl.access_token)
       /\ SameOpt(cl.AccessIssuedAt, Some(Stamp(decode_jwt(cl.access_token).val, "iat")))
       /\ SameOpt(cl.AccessExpires, Some(Stamp(decode_jwt(cl.access_token).val, "exp")))

\* C37: between operations the access issued-at and expiry of the client are
\* those of the access token it holds, also after an operation that raised.
C37_BookkeepingFollowsToken ==
  AtRest => AccessBookkeepingFits(client)

\* --- sessions and user id of the integration
\* C34: when async_setup_entry has returned False the client it built holds
\* no open session.
C34_FailedSetupClosesClient ==
  app.result = "False" => OpenSessions(client) = {}

\* C38: the user id of a returned snapshot is the user id the client holds
\* when the snapshot is returned.
C38_SnapshotUserIdCurrent ==
  Returned => SameOpt(cyc.snap.user_id, client.user_id)

\* --- timer
\* C31: the timer is registered only once the first cycle has returned, a
\* later cycle starts only from the registered timer with the previous cycle
\* over, and each start is one more cycle.
C31_TimerAfterFirstCycle ==
  [][ /\ app'.timer => (cyc'.n >= 1 /\ (cyc'.n = 1 => cyc'.pc = "returned"))
      /\ cyc'.n # cyc.n => cyc'.n = cyc.n + 1
      /\ (cyc'.n # cyc.n /\ cyc.n >= 1) => (app.timer /\ cyc.pc = "returned") ]_vars

C31_Witness ==
  app.timer /\ cyc.n = 2 /\ cyc.pc = "sub"

\* --- termination of a cycle
\* the meters of the fetched list that have an identifier (none when the fetch
\* of the list failed or has not ended)
Addressable ==
  IF Len(cyc.ended) = 0 \/ ~cyc.ended[1].ok THEN 0
  ELSE Len(IdsInOrder(cyc.ended[1].data))

\* what the cycle has called so far stays within 1 + 5N fetches, the fetch
\* under way within 2 GETs and 1 refresh request, and a returned cycle has
\* made and ended exactly 1 + 5N fetches
CycleWithinBudget ==
  cyc.pc \in {"meters", "sub", "returned"} =>
    /\ calls[Coord].gets <= 2
    /\ calls[Coord].refreshes <= 1
    /\ calls[Coord].posts <= 1
    /\ Len(cyc.issued) <= 1 + 5 * Addressable
    /\ Returned => (Len(cyc.issued) = 1 + 5 * Addressable
                      /\ Len(cyc.ended) = Len(cyc.issued))

\* requests the cycle can have sent before the one it waits for: three for
\* each fetch that has ended, and those of the fetch under way
Rank ==
  3 * Len(cyc.ended)
    + (IF calls[Coord].pc = "refresh" THEN 1 ELSE IF calls[Coord].pc = "get2" THEN 2 ELSE 0)

\* the cycle waits for one request, and the provider or the network has an
\* outcome for it: the guard of the answer action of that request
AnswerReady ==
  \/ calls[Coord].pc = "get1" /\ GetAnswers(calls[Coord].op, 1) # {}
  \/ calls[Coord].pc = "refresh" /\ RefreshAnswers # {}
  \/ calls[Coord].pc = "get2" /\ GetAnswers(calls[Coord].op, 2) # {}

\* C35: a cycle that runs always waits for one request whose answer it can
\* take, every answer moves it strictly forward through at most 3(1 + 5N)
\* requests (N addressable meters, 1 + 5N fetches, each with at most 2 GETs
\* and 1 refresh request), so it ends once every request is answered or fails.
C35_CycleTerminates ==
  [][ /\ CycleWithinBudget'
      /\ InCycle' => (Rank' < 3 * (1 + 5 * Addressable') /\ AnswerReady')
      /\ (InCycle /\ InCycle' /\ cyc'.n = cyc.n) => Rank' > Rank ]_vars

C35_Witness ==
  /\ Returned /\ Addressable = 2 /\ Len(cyc.ended) = 11
  /\ \E x \in 2..11 : ~cyc.ended[x].ok

\* --- one day per cycle
\* the window a query of the given kind carries for local day d
DayWindow(kind, d) ==
  IF kind \in ExclusiveKinds THEN IsoWindow(local_day_window_utc(d))
  ELSE IsoWindow(local_day_window_utc_ms(d))

\* C39: every windowed query of a cycle carries the window of the local date
\* of the instant captured at the start of the cycle, and the snapshot reports
\* that instant and the windows of that date, whatever time has passed since.
C39_OneDayPerCycle ==
  cyc.pc \in {"meters", "sub", "returned"} =>
    /\ cyc.today = local_date(cyc.now_utc)
    /\ \A x \in 1..Len(cyc.issued) :
         cyc.issued[x].kind \in ExclusiveKinds \cup InclusiveKinds =>
           cyc.issued[x].win = DayWindow(cyc.issued[x].kind, local_date(cyc.now_utc))
    /\ Returned =>
         /\ cyc.snap.ts_utc = cyc.now_utc
         /\ cyc.snap.windows.buy = DayWindow("pricing_buy", local_date(cyc.now_utc))
         /\ cyc.snap.windows.sell = DayWindow("pricing_sell", local_date(cyc.now_utc))
         /\ cyc.snap.windows.usage = DayWindow("usage", local_date(cyc.now_utc))
         /\ cyc.snap.windows.cost = DayWindow("cost", local_date(cyc.now_utc))

\* C39 witness: a cycle returned after local midnight had passed, having sent
\* windowed queries after midnight
C39_Witness ==
  /\ Returned /\ Len(cyc.issued) = 11
  /\ local_date(cyc.now_utc + Elapsed(5)) = local_date(cyc.now_utc) + 1
  /\ cyc.issued[11].kind = "cost"

\* --- whole seconds
\* C40: window bounds are whole seconds obtained by truncation: the usage/cost
\* window a cycle sends and reports starts with the pricing window and ends at
\* the last whole second of the local day, one second before the pricing
\* window's end.
C40_TruncatedWindowEnd ==
  cyc.pc \in {"meters", "sub", "returned"} =>
    /\ \A x \in 1..Len(cyc.issued) :
         cyc.issued[x].kind \in InclusiveKinds =>
           /\ cyc.issued[x].win[2] * 1000 <= local_day_window_utc_ms(cyc.today)[2]
           /\ local_day_window_utc_ms(cyc.today)[2] < (cyc.issued[x].win[2] + 1) * 1000
           /\ \A y \in 1..Len(cyc.issued) :
                cyc.issued[y].kind \in ExclusiveKinds =>
                  /\ cyc.issued[x].win[1] = cyc.issued[y].win[1]
                  /\ cyc.issued[x].win[2] = cyc.issued[y].win[2] - 1
    /\ Returned =>
         /\ cyc.snap.windows.usage[2] = cyc.snap.windows.buy[2] - 1
         /\ cyc.snap.windows.cost[2] = cyc.snap.windows.sell[2] - 1

\* C40 witness: a returned cycle sent pricing and usage queries for a day of
\* 23 hours
C40_Witness ==
  /\ Returned /\ cyc.today = SpringDay
  /\ \E x, y \in 1..Len(cyc.issued) :
       /\ cyc.issued[x].kind = "usage" /\ cyc.issued[y].kind = "pricing_buy"
       /\ cyc.issued[y].win[2] - cyc.issued[y].win[1] = 23 * 3600

\* ------------------------------------------------------- the config flow
\* async_step_user with a temporary client: texts are sequences of characters
\* str.strip()
RECURSIVE lstrip(_)
lstrip(t) == IF t # <<>> /\ Head(t) = " " THEN lstrip(Tail(t)) ELSE t

RECURSIVE rstrip(_)
rstrip(t) == IF t # <<>> /\ t[Len(t)] = " " THEN rstrip(SubSeq(t, 1, Len(t) - 1)) ELSE t

strip(t) == rstrip(lstrip(t))

\* what the user may type into the form
FormEmails == {<<>>, <<" ">>, <<"e">>, <<" ", "e">>, <<"f", " ">>}
FormPasswords == {<<>>, <<"p">>}

\* times the form is submitted in one flow
MaxSubmits == 2

\* PstrykApiClient(email=email, password=password); login's `not self.email`
\* holds for the empty text as it does for None
FlowClient(email, password) ==
  [NewClient EXCEPT !.email = IF email = <<>> THEN None ELSE Some(email),
                    !.password = IF password = <<>> THEN None ELSE Some(password)]

\* the flow before its first step:
\*   configured: the e-mails that already have an entry
\*   email: the e-mail of the last submission, stripped
\*   answer: what the provider answered to the last login
\*   errors: errors["base"] of the form shown last; entry: data of the entry
NewFlow(configured) ==
  [ phase |-> "start", configured |-> configured, submits |-> 0, email |-> <<>>,
    answer |-> NoResp, errors |-> None, entry |-> None ]

\* the end of async_step_user with the except clause skipped by its finally
async_step_user_end_close_on_success(fl, cl, exc) ==
  [ fl |-> IF exc = "none"
           THEN [fl EXCEPT !.phase = "created",
                           !.entry = Some([ email |-> fl.email, user_id |-> cl.user_id,
                                            access_token |-> cl.access_token,
                                            refresh_token |-> cl.refresh_token ])]
           ELSE [fl EXCEPT !.phase = "form", !.errors = Some("auth")],
    cl |-> IF exc = "none" THEN aclose(cl) ELSE cl ]

\* the end of async_step_user once login has returned or raised exc: the entry
\* is created from what the client holds, or the form is shown with the base
\* error; the finally clause closes the client
async_step_user_end(fl, cl, exc) ==
  [ fl |-> IF exc = "none"
           THEN [fl EXCEPT !.phase = "created",
                           !.entry = Some([ email |-> fl.email, user_id |-> cl.user_id,
                                            access_token |-> cl.access_token,
                                            refresh_token |-> cl.refresh_token ])]
           ELSE [fl EXCEPT !.phase = "form", !.errors = Some("auth")],
    cl |-> aclose(cl) ]

InitFlow ==
  /\ client = NewClient
  /\ calls = [c \in Callers |-> IdleFrame(NewClient)]
  /\ cyc = IdleCycle
  /\ minted = 0
  /\ app \in {NewFlow(c) : c \in {{}, {<<"e">>}}}

\* async_step_user without user_input: the form is shown
ShowForm ==
  /\ app.phase = "start"
  /\ app' = [app EXCEPT !.phase = "form"]
  /\ UNCHANGED <<client, calls, cyc, minted>>

\* async_step_user with user_input, up to the POST of login: abort for an
\* e-mail that is configured, else build the client and call login
SubmitForm ==
  /\ app.phase = "form" /\ app.submits < MaxSubmits
  /\ \E e \in FormEmails, pw \in FormPasswords :
       LET fl == [app EXCEPT !.submits = @ + 1, !.email = strip(e), !.answer = NoResp,
                             !.errors = None]
           lb == login_begin(FlowClient(strip(e), pw))
           end == async_step_user_end(fl, lb.cl, lb.exc)
       IN IF strip(e) \in app.configured
          THEN /\ app' = [fl EXCEPT !.phase = "aborted"]
               /\ UNCHANGED client
          ELSE IF lb.exc # "none"
          THEN /\ app' = end.fl
               /\ client' = end.cl
          ELSE /\ app' = [fl EXCEPT !.phase = "login"]
               /\ client' = lb.cl
  /\ UNCHANGED <<calls, cyc, minted>>

\* the POST of login is answered or fails; async_step_user runs to its end
FlowLoginAnswer ==
  /\ app.phase = "login"
  /\ \E resp \in LoginAnswers :
       LET out == login_finish(client, resp)
           end == async_step_user_end([app EXCEPT !.answer = resp], out.cl, out.exc)
       IN /\ app' = end.fl
          /\ client' = end.cl
  /\ UNCHANGED <<calls, cyc, minted>>

NextFlow ==
  \/ ShowForm
  \/ SubmitForm
  \/ FlowLoginAnswer

SpecFlow == InitFlow /\ [][NextFlow]_vars

\* C32: outside the wait for login's answer the temporary client holds no open
\* session; an entry exists only after a login that succeeded and holds the
\* submitted e-mail with the user id and tokens of the client; after a failed
\* submission the form is shown with the base error "auth" and no entry exists.
C32_FlowClosesClient ==
  /\ app.phase # "login" => OpenSessions(client) = {}
  /\ app.entry.some <=> app.phase = "created"
  /\ app.phase = "created" =>
       /\ FullLoginAnswer(app.answer)
       /\ Decodable(app.answer.data["access"]) /\ Decodable(app.answer.data["refresh"])
       /\ app.entry.val.email = app.email /\ client.email = Some(app.email)
       /\ SameOpt(app.entry.val.user_id, client.user_id)
       /\ SameOpt(app.entry.val.user_id, app.answer.data["user_id"])
       /\ app.entry.val.access_token = client.access_token
       /\ app.entry.val.access_token = app.answer.data["access"]
       /\ app.entry.val.refresh_token = client.refresh_token
       /\ app.entry.val.refresh_token = app.answer.data["refresh"]
  /\ (app.phase = "form" /\ app.submits > 0) => app.errors = Some("auth")
  /\ app.phase \in {"login", "aborted"} => IsNone(app.errors)

\* C32 witness: the second submission was answered with a login that failed
\* after the client had opened its session
C32_Witness ==
  /\ app.phase = "form" /\ app.submits = 2 /\ app.errors = Some("auth")
  /\ app.answer # NoResp /\ Len(client.sessions) = 1

\* C32 witness of the other path: an entry was created
C32_Created ==
  app.phase = "created" /\ Len(client.sessions) = 1

\* ------------------------------------------------------ unload of the entry
\* the entry as a successful setup leaves it: the startup refresh was answered
\* with a new access token, the first cycle fetched an empty meter list, the
\* timer is registered
LoadedClient ==
  refresh_finish(SetupClient, Answer(0, 200, "access" :> Jwt(2))).cl

LoadedCycle ==
  LET b == CycleBegin(LoadedClient, IdleCycle, SetupInstant)
      a == on_first(b.cl, b.fr, Answer(1, 200, <<>>))
  IN Resume(a.cl, a.fr, b.cy)

LoadedEntry ==
  /\ client = LoadedCycle.cl
  /\ calls = [c \in Callers |-> IF c = Coord THEN LoadedCycle.fr ELSE IdleFrame(NewClient)]
  /\ cyc = LoadedCycle.cy
  /\ app = [ phase |-> "running", entry |-> [EntryData EXCEPT !.access = LoadedClient.access_token,
                                        !.user_id = LoadedClient.user_id],
             reauth |-> 0, result |-> "True", posts |-> 1, coordinator |-> TRUE,
             timer |-> TRUE ]
  /\ minted = 1

\* async_unload_entry up to its await of async_unload_platforms: the store is
\* popped and the timer unsubscribed
UnloadBegin ==
  /\ app.phase = "running"
  /\ app' = [app EXCEPT !.phase = "unloading", !.timer = FALSE]
  /\ UNCHANGED <<client, calls, cyc, minted>>

\* async_unload_entry from the end of async_unload_platforms on: the client is
\* closed and the result of the platforms returned
UnloadEnd ==
  /\ app.phase = "unloading"
  /\ \E ok \in {"True", "False"} :
       app' = [app EXCEPT !.phase = "unloaded", !.result = ok]
  /\ client' = aclose(client)
  /\ UNCHANGED <<calls, cyc, minted>>

NextUnload ==
  \/ Tick
  \/ CycleFirstAnswer
  \/ CycleRefreshAnswer
  \/ CycleRetryAnswer
  \/ UnloadBegin
  \/ UnloadEnd

SpecUnload == LoadedEntry /\ [][NextUnload]_vars

\* C33: once async_unload_entry has returned and no cycle runs any more, the
\* timer is unsubscribed and the client holds no open session.
C33_UnloadLeavesNoSession ==
  (app.phase = "unloaded" /\ ~InCycle) =>
    (~app.timer /\ OpenSessions(client) = {})

====
